---- MODULE Spec2Model ----
(***************************************************************************)
(* A model of utils/resume_analyzer.py: the ResumeAnalyzer object, its     *)
(* analyze_resume facade and the scorers behind it.  Texts are strings;    *)
(* the Python string and regular-expression operations the code uses are   *)
(* modelled character by character, and the float arithmetic of the        *)
(* percentage scores is modelled as IEEE-754 double arithmetic.            *)
(***************************************************************************)
EXTENDS Integers, Sequences, FiniteSets, TLC

VARIABLES
    self,   \* the ResumeAnalyzer instance: its attributes
    queue,  \* calls submitted to the analyzer and not yet run
    log,    \* calls that have run, each with its outcome
    frames, \* per thread: the analyze_resume call it is inside of, if any
    db      \* the database: its rows, and the sessions made so far

vars == <<self, queue, log, frames, db>>

(***************************************************************************)
(* Bounds of the model.                                                    *)
(***************************************************************************)
MaxPieces == 3
MaxSkills == 2
MaxCalls == 3
MaxLines == 3
MaxThreads == 2
MaxSaves == 2

(***************************************************************************)
(* Characters.                                                             *)
(***************************************************************************)
CharsOf(s) == {SubSeq(s, i, i) : i \in 1..Len(s)}

UpperLetters == "ABCDEFGHIJKLMNOPQRSTUVWXYZ"
LowerLetters == "abcdefghijklmnopqrstuvwxyz"

AsciiUpper == CharsOf(UpperLetters)
AsciiLower == CharsOf(LowerLetters)
AsciiDigit == CharsOf("0123456789")

\* The characters of \x00-\x7F that texts of the model are made of.
AsciiChars ==
    AsciiUpper \cup AsciiLower \cup AsciiDigit
        \cup CharsOf(" \n\t\r.,:;+-*#/@_()&!?'|")

\* Non-ASCII characters that Python's Unicode-aware \w does not match.
NonAsciiSymbols == {"§", "·", "¤", "¢"}

\* [^\x00-\x7F]
IsNonAscii(c) == c \notin AsciiChars

\* \w of a str pattern: letters, digits and the underscore, Unicode letters
\* included.
IsWordChar(c) ==
    \/ c \in AsciiUpper \cup AsciiLower \cup AsciiDigit \cup {"_"}
    \/ IsNonAscii(c) /\ c \notin NonAsciiSymbols

Whitespace == CharsOf(" \n\t\r")

\* c.lower() of one character; only the upper-case letters change.
ToLower ==
    [c \in AsciiUpper \cup {"É"} |->
        IF c = "É" THEN "é"
        ELSE LET i == CHOOSE j \in 1..26 : SubSeq(UpperLetters, j, j) = c
             IN  SubSeq(LowerLetters, i, i)]

(***************************************************************************)
(* Python's str operations.                                                *)
(***************************************************************************)
\* s.lower(), halving s so that the recursion stays shallow.
RECURSIVE str_lower(_)
str_lower(s) ==
    IF Len(s) = 0 THEN ""
    ELSE IF Len(s) = 1 THEN (IF s \in DOMAIN ToLower THEN ToLower[s] ELSE s)
    ELSE LET h == Len(s) \div 2
         IN  str_lower(SubSeq(s, 1, h)) \o str_lower(SubSeq(s, h + 1, Len(s)))

\* sub in s
str_in(sub, s) ==
    \E i \in 1..(Len(s) - Len(sub) + 1) : SubSeq(s, i, i + Len(sub) - 1) = sub

\* s.strip()
str_strip(s) ==
    LET inked == {i \in 1..Len(s) : SubSeq(s, i, i) \notin Whitespace}
    IN  IF inked = {} THEN ""
        ELSE SubSeq(s, CHOOSE i \in inked : \A j \in inked : i <= j,
                       CHOOSE i \in inked : \A j \in inked : i >= j)

\* s.split('\n'): the stretches between the line breaks, one more than there
\* are line breaks.
str_split_lines(s) ==
    LET breaks   == {i \in 1..Len(s) : SubSeq(s, i, i) = "\n"}
        Break(n) == IF n = 0 THEN 0
                    ELSE IF n = Cardinality(breaks) + 1 THEN Len(s) + 1
                    ELSE CHOOSE p \in breaks : Cardinality({q \in breaks : q < p}) = n - 1
    IN  [n \in 1..(Cardinality(breaks) + 1) |-> SubSeq(s, Break(n - 1) + 1, Break(n) - 1)]

\* ' '.join(parts)
RECURSIVE str_join(_)
str_join(parts) ==
    IF Len(parts) = 0 THEN ""
    ELSE IF Len(parts) = 1 THEN parts[1]
    ELSE LET h == Len(parts) \div 2
         IN  str_join(SubSeq(parts, 1, h)) \o " " \o str_join(SubSeq(parts, h + 1, Len(parts)))

(***************************************************************************)
(* Python's re.search for the patterns of the module.                      *)
(***************************************************************************)
IsWordAt(s, i) == i \in 1..Len(s) /\ IsWordChar(SubSeq(s, i, i))

\* \b matches before the character at position p (p = Len(s) + 1: at the end).
WordBoundary(s, p) == IsWordAt(s, p - 1) # IsWordAt(s, p)

\* re.search(r'\b' + re.escape(w) + r'\b', s)
re_search_word(w, s) ==
    \E i \in 1..(Len(s) - Len(w) + 1) :
        /\ SubSeq(s, i, i + Len(w) - 1) = w
        /\ WordBoundary(s, i)
        /\ WordBoundary(s, i + Len(w))

\* re.search(r'\b(w1|w2|...)\b', s)
re_search_words(ws, s) == \E w \in ws : re_search_word(w, s)

\* re.search(r'[^\x00-\x7F]', s)
re_search_non_ascii(s) == \E i \in 1..Len(s) : IsNonAscii(SubSeq(s, i, i))

\* re.search(r'\n{2,}', s)
re_search_double_newline(s) ==
    \E i \in 1..(Len(s) - 1) : SubSeq(s, i, i + 1) = "\n\n"

\* re.search(r'[A-Z][a-z]+', s)
re_search_capitalized(s) ==
    \E i \in 1..(Len(s) - 1) :
        SubSeq(s, i, i) \in AsciiUpper /\ SubSeq(s, i + 1, i + 1) \in AsciiLower

(***************************************************************************)
(* Python's float arithmetic, IEEE-754 binary64, round to nearest, ties to *)
(* even.  A positive double is its 53-bit significand, held as three limbs *)
(* hi (17 bits, the top one set), mid and lo (18 bits each), and the       *)
(* exponent e of its top bit:                                              *)
(*     (hi * 2^36 + mid * 2^18 + lo) * 2^(e - 52).                         *)
(***************************************************************************)
RECURSIVE Pow2(_)
Pow2(n) == IF n = 0 THEN 1 ELSE 2 * Pow2(n - 1)

Limb == Pow2(18)

\* The significand <<hi, mid, lo>> plus one when up, with exponent e; a carry
\* out of the top limb gives 2^53, the next power of two.
RoundUp(hi, mid, lo, e, up) ==
    LET lo1  == IF up THEN lo + 1 ELSE lo
        mid1 == mid + lo1 \div Limb
        hi1  == hi + mid1 \div Limb
    IN  IF hi1 = Pow2(17)
        THEN [hi |-> Pow2(16), mid |-> 0, lo |-> 0, e |-> e + 1]
        ELSE [hi |-> hi1, mid |-> mid1 % Limb, lo |-> lo1 % Limb, e |-> e]

\* a / b of two positive ints (CPython's int true division is correctly
\* rounded).
float_div(a, b) ==
    LET up   == CHOOSE k \in 0..30 :
                    a * Pow2(k) >= b /\ (k = 0 \/ a * Pow2(k - 1) < b)
        n    == a * Pow2(up)
        down == CHOOSE k \in 0..30 : b * Pow2(k) <= n /\ b * Pow2(k + 1) > n
        d    == b * Pow2(down)
        \* n / d is in [1, 2): the quotient's 53 bits by long division
        hi   == (n * Pow2(16)) \div d
        r2   == (n * Pow2(16)) % d
        mid  == (r2 * Limb) \div d
        r1   == (r2 * Limb) % d
        lo   == (r1 * Limb) \div d
        r0   == (r1 * Limb) % d
        up53 == 2 * r0 > d \/ (2 * r0 = d /\ lo % 2 = 1)
    IN  RoundUp(hi, mid, lo, down - up, up53)

\* x * 100.0 of a positive double.
float_mul100(x) ==
    LET x0   == x.lo * 100
        x1   == x.mid * 100 + x0 \div Limb
        x2   == x.hi * 100 + x1 \div Limb
        p1   == x1 % Limb
        p0   == x0 % Limb
        \* the exact product is x2 * 2^36 + p1 * 2^18 + p0, of 36 + len bits
        len  == CHOOSE k \in 1..30 : Pow2(k - 1) <= x2 /\ x2 < Pow2(k)
        s    == len - 17
        cut  == Pow2(s)
        keep == Pow2(18 - s)
        hi   == x2 \div cut
        mid  == (x2 % cut) * keep + p1 \div cut
        lo   == (p1 % cut) * keep + p0 \div cut
        rest == p0 % cut
        up53 == 2 * rest > cut \/ (2 * rest = cut /\ lo % 2 = 1)
    IN  RoundUp(hi, mid, lo, x.e + s, up53)

\* int(x) of a positive double below 2^31: truncation.
float_int(x) ==
    IF x.e < 0 THEN 0
    ELSE IF x.e <= 16 THEN x.hi \div Pow2(16 - x.e)
    ELSE x.hi * Pow2(x.e - 16) + x.mid \div Pow2(34 - x.e)

\* The fault of dividing with //: int((a // b) * 100).
int_percent_floor_division(a, b) == (a \div b) * 100

\* int((a / b) * 100) for ints a >= 0 and b > 0; 0 / b is 0.0.
int_percent(a, b) ==
    IF a = 0 THEN 0 ELSE float_int(float_mul100(float_div(a, b)))

(***************************************************************************)
(* Python values: dicts are functions on their keys, None and an exception *)
(* that leaves a call are tagged records.                                  *)
(***************************************************************************)
None == [type |-> "NoneType"]
Dict(d) == [type |-> "dict", items |-> d]
EmptyItems == [k \in {} |-> ""]

IsNone(v) == v.type = "NoneType"

\* not v, for v None or a dict
IsFalsy(v) == IsNone(v) \/ DOMAIN v.items = {}

\* d.get(key, default)
dict_get(d, key, default) == IF key \in DOMAIN d THEN d[key] ELSE default

Return(v) == [raised |-> FALSE, value |-> v]
Raise(e) == [raised |-> TRUE, exc |-> e]

Range(f) == {f[x] : x \in DOMAIN f}

(***************************************************************************)
(* ResumeAnalyzer.__init__: the attributes of a new analyzer.              *)
(***************************************************************************)
ResumeAnalyzer ==
    [sections |->
        [education  |-> <<"education", "academic", "university", "college", "school">>,
         experience |-> <<"experience", "employment", "work", "job">>,
         skills     |-> <<"skills", "technical skills", "competencies", "expertise">>,
         projects   |-> <<"projects", "portfolio", "achievements">>,
         summary    |-> <<"summary", "profile", "objective", "about">>]]

\* max(0, score)
Max0(score) == IF score < 0 THEN 0 ELSE score

(***************************************************************************)
(* The scorers behind analyze_resume.                                      *)
(***************************************************************************)
\* The fault of adding the penalties: score += 20, += 15, += 10.
ats_score_adding_penalties(text) ==
    LET low == str_lower(text)
        d1  == IF Len(text) < 100 THEN 20 ELSE 0
        d2  == IF ~re_search_words({"experience", "education", "skills"}, low)
               THEN 15 ELSE 0
        d3  == IF re_search_non_ascii(text) THEN 10 ELSE 0
    IN  Max0(100 + d1 + d2 + d3)

\* The fault of chaining the three tests with elif: only the first penalty
\* that applies is taken.
ats_score_first_penalty_only(text) ==
    LET low == str_lower(text)
    IN  IF Len(text) < 100 THEN 80
        ELSE IF ~re_search_words({"experience", "education", "skills"}, low) THEN 85
        ELSE IF re_search_non_ascii(text) THEN 90
        ELSE 100

_calculate_ats_score(text) ==
    LET low == str_lower(text)
        d1  == IF Len(text) < 100 THEN 20 ELSE 0
        d2  == IF ~re_search_words({"experience", "education", "skills"}, low)
               THEN 15 ELSE 0
        d3  == IF re_search_non_ascii(text) THEN 10 ELSE 0
    IN  Max0(100 - d1 - d2 - d3)

\* The fault of chaining the two tests with elif: a text without a double
\* newline loses 10 and is not tested for a capitalized word.
format_score_first_deduction_only(text) ==
    IF ~re_search_double_newline(text) THEN 90
    ELSE IF ~re_search_capitalized(text) THEN 90
    ELSE 100

_calculate_format_score(text) ==
    LET d1 == IF ~re_search_double_newline(text) THEN 10 ELSE 0
        d2 == IF ~re_search_capitalized(text) THEN 10 ELSE 0
    IN  Max0(100 - d1 - d2)

\* The fault of reading self.essential_sections, as check_resume_sections does.
section_score_from_essential_sections(slf, text) ==
    IF "essential_sections" \notin DOMAIN slf THEN Raise("AttributeError")
    ELSE Return(0)

\* The fault of looking for the keywords in the text as given, not in
\* text.lower().
section_score_in_given_case(slf, text) ==
    IF "sections" \notin DOMAIN slf THEN Raise("AttributeError")
    ELSE LET found == {sec \in DOMAIN slf.sections :
                          \E keyword \in Range(slf.sections[sec]) : str_in(keyword, text)}
         IN  IF DOMAIN slf.sections = {} THEN Raise("ZeroDivisionError")
             ELSE Return(int_percent(Cardinality(found), Cardinality(DOMAIN slf.sections)))

\* Reads self.sections: an AttributeError without it, a ZeroDivisionError when
\* it is empty.
_calculate_section_score(slf, text) ==
    IF "sections" \notin DOMAIN slf THEN Raise("AttributeError")
    ELSE LET low   == str_lower(text)
             found == {sec \in DOMAIN slf.sections :
                          \E keyword \in Range(slf.sections[sec]) : str_in(keyword, low)}
         IN  IF DOMAIN slf.sections = {} THEN Raise("ZeroDivisionError")
             ELSE Return(int_percent(Cardinality(found), Cardinality(DOMAIN slf.sections)))

_analyze_keyword_match(text, job_requirements) ==
    IF IsFalsy(job_requirements)
    THEN [score |-> 0, missing_skills |-> << >>]
    ELSE LET required_skills == dict_get(job_requirements.items, "required_skills", << >>)
             low             == str_lower(text)
             Found(skill)    == re_search_word(str_lower(skill), low)
             Missing(skill)  == ~Found(skill)
             found_skills    == SelectSeq(required_skills, Found)
             missing_skills  == SelectSeq(required_skills, Missing)
         IN  [score          |-> IF Len(required_skills) > 0
                                 THEN int_percent(Len(found_skills), Len(required_skills))
                                 ELSE 0,
              found_skills   |-> found_skills,
              missing_skills |-> missing_skills]

TooShort == "Resume appears too short. Consider adding more details about your experience and skills."
NoExperience == "No work experience section found. Add your professional experience."
NoEducation == "No education section found. Add your educational background."
NoSkills == "No skills section found. List your technical and soft skills."

\* The fault of chaining the four rules with elif: a rule that fires
\* suppresses the rules after it.
suggestions_stopping_at_first_rule(text) ==
    LET low == str_lower(text)
    IN  IF Len(text) < 200 THEN <<TooShort>>
        ELSE IF ~re_search_words({"experience", "work", "job"}, low) THEN <<NoExperience>>
        ELSE IF ~re_search_words({"education", "university", "college", "school"}, low)
        THEN <<NoEducation>>
        ELSE IF ~re_search_words({"skills", "expertise", "competencies"}, low)
        THEN <<NoSkills>>
        ELSE << >>

_generate_suggestions(text) ==
    LET low == str_lower(text)
    IN  (IF Len(text) < 200 THEN <<TooShort>> ELSE << >>)
        \o (IF ~re_search_words({"experience", "work", "job"}, low)
            THEN <<NoExperience>> ELSE << >>)
        \o (IF ~re_search_words({"education", "university", "college", "school"}, low)
            THEN <<NoEducation>> ELSE << >>)
        \o (IF ~re_search_words({"skills", "expertise", "competencies"}, low)
            THEN <<NoSkills>> ELSE << >>)

\* The fault of leaving out the test for an empty text.
analyze_resume_unguarded(slf, resume_data, job_requirements) ==
    LET text    == dict_get(resume_data, "raw_text", "")
        section == _calculate_section_score(slf, text)
    IN  IF section.raised
        THEN [error |-> "Error analyzing resume: " \o section.exc]
        ELSE [document_type |-> "resume",
              ats_score     |-> _calculate_ats_score(text),
              format_score  |-> _calculate_format_score(text),
              section_score |-> section.value,
              keyword_match |-> _analyze_keyword_match(text, job_requirements),
              suggestions   |-> _generate_suggestions(text)]

(***************************************************************************)
(* analyze_resume: the facade.  Every exception of the body is caught and  *)
(* turned into an error result.                                            *)
(***************************************************************************)
analyze_resume(slf, resume_data, job_requirements) ==
    LET text    == dict_get(resume_data, "raw_text", "")
        section == _calculate_section_score(slf, text)
    IN  IF Len(text) = 0
        THEN [error |-> "No text content found in resume"]
        ELSE IF section.raised
        THEN [error |-> "Error analyzing resume: " \o section.exc]
        ELSE [document_type |-> "resume",
              ats_score     |-> _calculate_ats_score(text),
              format_score  |-> _calculate_format_score(text),
              section_score |-> section.value,
              keyword_match |-> _analyze_keyword_match(text, job_requirements),
              suggestions   |-> _generate_suggestions(text)]

(***************************************************************************)
(* check_resume_sections reads self.essential_sections, which __init__     *)
(* does not set.  With the attribute in place the sum of the section       *)
(* scores, each 25 * found / len(keywords), is given as an exact fraction  *)
(* <<numerator, denominator>>.                                             *)
(***************************************************************************)
RECURSIVE SumOver(_, _)
SumOver(S, f) ==
    IF S = {} THEN 0 ELSE LET x == CHOOSE y \in S : TRUE IN f[x] + SumOver(S \ {x}, f)

RECURSIVE ProductOver(_, _)
ProductOver(S, f) ==
    IF S = {} THEN 1 ELSE LET x == CHOOSE y \in S : TRUE IN f[x] * ProductOver(S \ {x}, f)

check_resume_sections(slf, text) ==
    IF "essential_sections" \notin DOMAIN slf THEN Raise("AttributeError")
    ELSE LET low    == str_lower(text)
             secs   == DOMAIN slf.essential_sections
             size   == [sec \in secs |-> Len(slf.essential_sections[sec])]
             found  == [sec \in secs |->
                          Cardinality({k \in DOMAIN slf.essential_sections[sec] :
                                          str_in(slf.essential_sections[sec][k], low)})]
             den    == ProductOver(secs, size)
         IN  IF \E sec \in secs : size[sec] = 0 THEN Raise("ZeroDivisionError")
             ELSE Return(<<SumOver(secs, [sec \in secs |-> 25 * found[sec] * (den \div size[sec])]),
                           den>>)

(***************************************************************************)
(* check_formatting: the stricter format check, a score and the reasons of *)
(* its deductions.  A TLA+ string holds Latin-1 characters only: the model *)
(* writes ¤ for the euro sign U+20AC and · for the bullet U+2022.  Like    *)
(* the characters they stand for, both are non-ASCII and neither a letter, *)
(* a digit nor white space, which is all the code asks of a character.     *)
(***************************************************************************)
Euro == "¤"
Bullet == "·"

\* The first marker of line 207, as the source file spells it: the UTF-8 bytes
\* of a bullet read as cp1252, three characters.
MojibakeBullet == "â" \o Euro \o "¢"

\* The lower-case letters of the model's alphabet.
LowerChars == AsciiLower \cup {"é", "â"}

\* s.isupper(): s has a cased character and no lower-case one.
str_isupper(s) ==
    /\ \E i \in 1..Len(s) : SubSeq(s, i, i) \in DOMAIN ToLower
    /\ \A i \in 1..Len(s) : SubSeq(s, i, i) \notin LowerChars

\* s.startswith(prefix)
str_startswith(s, prefix) ==
    Len(s) >= Len(prefix) /\ SubSeq(s, 1, Len(prefix)) = prefix

IsDigitAt(s, i) == i \in 1..Len(s) /\ SubSeq(s, i, i) \in AsciiDigit

\* [-.]
IsSeparatorAt(s, i) == i \in 1..Len(s) /\ SubSeq(s, i, i) \in {"-", "."}

\* [\w\.-]
IsAddressAt(s, i) == IsWordAt(s, i) \/ IsSeparatorAt(s, i)

\* re.search(r'\b[\w\.-]+@[\w\.-]+\.\w+\b', s)
re_search_email(s) ==
    \E at \in 1..Len(s) :
        /\ SubSeq(s, at, at) = "@"
        /\ \E i \in 1..(at - 1) :
               WordBoundary(s, i) /\ \A k \in i..(at - 1) : IsAddressAt(s, k)
        /\ \E dot \in (at + 2)..(Len(s) - 1) :
               /\ SubSeq(s, dot, dot) = "."
               /\ \A k \in (at + 1)..(dot - 1) : IsAddressAt(s, k)
               /\ \E j \in (dot + 1)..Len(s) :
                      WordBoundary(s, j + 1) /\ \A k \in (dot + 1)..j : IsWordAt(s, k)

\* re.search(r'\b\d{3}[-.]?\d{3}[-.]?\d{4}\b', s)
re_search_phone(s) ==
    \E i \in 1..Len(s), a, b \in {0, 1} :
        /\ WordBoundary(s, i)
        /\ \A k \in 0..2 : IsDigitAt(s, i + k)
        /\ a = 1 => IsSeparatorAt(s, i + 3)
        /\ \A k \in 0..2 : IsDigitAt(s, i + 3 + a + k)
        /\ b = 1 => IsSeparatorAt(s, i + 6 + a)
        /\ \A k \in 0..3 : IsDigitAt(s, i + 6 + a + b + k)
        /\ WordBoundary(s, i + 10 + a + b)

\* re.search(r'linkedin\.com/\w+', s)
re_search_linkedin(s) ==
    \E i \in 1..(Len(s) - 13) :
        SubSeq(s, i, i + 12) = "linkedin.com/" /\ IsWordAt(s, i + 13)

TooShortReason == "Resume is too short"
NoHeadersReason == "No clear section headers found"
NoBulletsReason == "No bullet points found"
SpacingReason == "Inconsistent spacing between sections"
NoContactReason == "Missing or improperly formatted contact information"

\* Returns the tuple (max(0, score), deductions).
check_formatting(text) ==
    LET lines == str_split_lines(text)
        d1 == Len(text) < 300
        d2 == ~\E n \in DOMAIN lines : str_isupper(lines[n])
        d3 == ~\E n \in DOMAIN lines :
                  \E marker \in {MojibakeBullet, "-", "*"} :
                      str_startswith(str_strip(lines[n]), marker)
        d4 == \E n \in 1..(Len(lines) - 1) :
                  Len(str_strip(lines[n])) = 0 /\ Len(str_strip(lines[n + 1])) = 0
        d5 == ~(re_search_email(text) \/ re_search_phone(text) \/ re_search_linkedin(text))
        score == 100 - (IF d1 THEN 30 ELSE 0) - (IF d2 THEN 20 ELSE 0)
                     - (IF d3 THEN 20 ELSE 0) - (IF d4 THEN 15 ELSE 0)
                     - (IF d5 THEN 15 ELSE 0)
    IN  <<Max0(score),
          (IF d1 THEN <<TooShortReason>> ELSE << >>)
          \o (IF d2 THEN <<NoHeadersReason>> ELSE << >>)
          \o (IF d3 THEN <<NoBulletsReason>> ELSE << >>)
          \o (IF d4 THEN <<SpacingReason>> ELSE << >>)
          \o (IF d5 THEN <<NoContactReason>> ELSE << >>)>>

(***************************************************************************)
(* The entry extractors.  extract_education, extract_experience and        *)
(* extract_projects are the same loop over the lines of the text with      *)
(* their own keyword lists; the loop reads self.document_types, which      *)
(* __init__ does not set, as soon as a non-blank line without a keyword of *)
(* the section follows the section's start.                                *)
(***************************************************************************)
education_keywords ==
    <<"education", "academic", "qualification", "degree", "university", "college",
      "school", "institute", "certification", "diploma", "bachelor", "master",
      "phd", "b.tech", "m.tech", "b.e", "m.e", "b.sc", "m.sc", "bca", "mca", "b.com",
      "m.com", "b.cs-it", "imca", "bba", "mba", "honors", "scholarship">>

\* any(keyword.lower() in line.lower() for keyword in keywords)
AnyKeywordIn(keywords, line) ==
    \E k \in DOMAIN keywords : str_in(str_lower(keywords[k]), str_lower(line))

\* any(keyword.lower() == line.lower() for keyword in keywords)
AnyKeywordIs(keywords, line) ==
    \E k \in DOMAIN keywords : str_lower(keywords[k]) = str_lower(line)

\* The loop's variables before its first line.
ExtractStart ==
    [in_section |-> FALSE, current_entry |-> << >>, entries |-> << >>,
     raised |-> FALSE, exc |-> ""]

\* The fault of leaving out the test for a pure header: every line with a
\* keyword is appended to the current entry.
ExtractStepKeepingHeaders(slf, keywords, st, raw_line) ==
    LET line  == str_strip(raw_line)
        flush == [st EXCEPT !.entries = IF st.current_entry # << >>
                                        THEN Append(@, str_join(st.current_entry)) ELSE @,
                            !.current_entry = << >>]
    IN  IF AnyKeywordIn(keywords, line)
        THEN [st EXCEPT !.current_entry = Append(@, line), !.in_section = TRUE]
        ELSE IF ~st.in_section THEN st
        ELSE IF line = "" THEN flush
        ELSE IF "document_types" \notin DOMAIN slf
        THEN [st EXCEPT !.raised = TRUE, !.exc = "AttributeError"]
        ELSE IF "resume" \notin DOMAIN slf.document_types
        THEN [st EXCEPT !.raised = TRUE, !.exc = "KeyError"]
        ELSE IF AnyKeywordIn(slf.document_types["resume"], line)
        THEN [flush EXCEPT !.in_section = FALSE]
        ELSE [st EXCEPT !.current_entry = Append(@, line)]

\* The fault of emitting the buffer at every blank line of the section, empty
\* or not.
ExtractStepEmittingEmptyBuffer(slf, keywords, st, raw_line) ==
    LET line  == str_strip(raw_line)
        flush == [st EXCEPT !.entries = Append(@, str_join(st.current_entry)),
                            !.current_entry = << >>]
    IN  IF AnyKeywordIn(keywords, line)
        THEN [st EXCEPT !.current_entry = IF ~AnyKeywordIs(keywords, line)
                                          THEN Append(@, line) ELSE @,
                        !.in_section = TRUE]
        ELSE IF ~st.in_section THEN st
        ELSE IF line = "" THEN flush
        ELSE IF "document_types" \notin DOMAIN slf
        THEN [st EXCEPT !.raised = TRUE, !.exc = "AttributeError"]
        ELSE IF "resume" \notin DOMAIN slf.document_types
        THEN [st EXCEPT !.raised = TRUE, !.exc = "KeyError"]
        ELSE IF AnyKeywordIn(slf.document_types["resume"], line)
        THEN [flush EXCEPT !.in_section = FALSE]
        ELSE [st EXCEPT !.current_entry = Append(@, line)]

\* One pass of the loop body, on one line of the text.
ExtractStep(slf, keywords, st, raw_line) ==
    LET line  == str_strip(raw_line)
        flush == [st EXCEPT !.entries = IF st.current_entry # << >>
                                        THEN Append(@, str_join(st.current_entry)) ELSE @,
                            !.current_entry = << >>]
    IN  IF AnyKeywordIn(keywords, line)
        THEN [st EXCEPT !.current_entry = IF ~AnyKeywordIs(keywords, line)
                                          THEN Append(@, line) ELSE @,
                        !.in_section = TRUE]
        ELSE IF ~st.in_section THEN st
        ELSE IF line = "" THEN flush
        ELSE IF "document_types" \notin DOMAIN slf
        THEN [st EXCEPT !.raised = TRUE, !.exc = "AttributeError"]
        ELSE IF "resume" \notin DOMAIN slf.document_types
        THEN [st EXCEPT !.raised = TRUE, !.exc = "KeyError"]
        ELSE IF AnyKeywordIn(slf.document_types["resume"], line)
        THEN [flush EXCEPT !.in_section = FALSE]
        ELSE [st EXCEPT !.current_entry = Append(@, line)]

\* The loop from line n on; an exception ends it.
RECURSIVE ExtractLoop(_, _, _, _, _)
ExtractLoop(slf, keywords, lines, n, st) ==
    IF st.raised \/ n > Len(lines) THEN st
    ELSE ExtractLoop(slf, keywords, lines, n + 1, ExtractStep(slf, keywords, st, lines[n]))

\* The fault of returning without looking at the buffer: what is collected
\* after the last blank line is dropped.
ExtractEntriesDroppingLastBuffer(slf, keywords, text) ==
    LET st == ExtractLoop(slf, keywords, str_split_lines(text), 1, ExtractStart)
    IN  IF st.raised THEN Raise(st.exc) ELSE Return(st.entries)

ExtractEntries(slf, keywords, text) ==
    LET st == ExtractLoop(slf, keywords, str_split_lines(text), 1, ExtractStart)
    IN  IF st.raised THEN Raise(st.exc)
        ELSE Return(IF st.current_entry # << >>
                    THEN Append(st.entries, str_join(st.current_entry))
                    ELSE st.entries)

extract_education(slf, text) == ExtractEntries(slf, education_keywords, text)

experience_keywords ==
    <<"experience", "employment", "work history", "professional experience",
      "work experience", "career history", "professional background",
      "employment history", "job history", "positions held", "experience",
      "job title", "job responsibilities", "job description", "job summary">>

extract_experience(slf, text) == ExtractEntries(slf, experience_keywords, text)

project_keywords ==
    <<"projects", "personal projects", "academic projects", "key projects",
      "major projects", "professional projects", "project experience",
      "relevant projects", "featured projects", "latest projects", "top projects">>

extract_projects(slf, text) == ExtractEntries(slf, project_keywords, text)

(***************************************************************************)
(* extract_skills: the comma-separated tokens of the lines after a line    *)
(* with 'skills', up to the first line with 'experience', 'education' or   *)
(* 'work'.  The lines are lower-cased before they are looked at and before *)
(* they are split.                                                         *)
(***************************************************************************)
\* s.split(sep) for a separator of one character: the stretches between the
\* separators, one more than there are separators.
str_split(s, sep) ==
    LET breaks   == {i \in 1..Len(s) : SubSeq(s, i, i) = sep}
        Break(n) == IF n = 0 THEN 0
                    ELSE IF n = Cardinality(breaks) + 1 THEN Len(s) + 1
                    ELSE CHOOSE p \in breaks : Cardinality({q \in breaks : q < p}) = n - 1
    IN  [n \in 1..(Cardinality(breaks) + 1) |-> SubSeq(s, Break(n - 1) + 1, Break(n) - 1)]

\* The words that end the skills section.
SkillsEnd == {"experience", "education", "work"}

\* The loop's variables before its first line.
SkillsStart == [in_skills_section |-> FALSE, skills |-> {}, broke |-> FALSE]

\* The fault of leaving the section without leaving the loop: a later header
\* opens the section again.
SkillsStepLeavingSection(st, raw_line) ==
    LET line == str_lower(str_strip(raw_line))
        potential_skills == [n \in DOMAIN str_split(line, ",") |->
                                str_strip(str_split(line, ",")[n])]
    IN  IF str_in("skills", line) THEN [st EXCEPT !.in_skills_section = TRUE]
        ELSE IF ~st.in_skills_section THEN st
        ELSE IF \E section \in SkillsEnd : str_in(section, line)
        THEN [st EXCEPT !.in_skills_section = FALSE]
        ELSE [st EXCEPT !.skills = @ \cup {s \in Range(potential_skills) : Len(s) > 2}]

\* One pass of the loop body, on one line of the text; break sets broke.
SkillsStep(st, raw_line) ==
    LET line == str_lower(str_strip(raw_line))
        potential_skills == [n \in DOMAIN str_split(line, ",") |->
                                str_strip(str_split(line, ",")[n])]
    IN  IF str_in("skills", line) THEN [st EXCEPT !.in_skills_section = TRUE]
        ELSE IF ~st.in_skills_section THEN st
        ELSE IF \E section \in SkillsEnd : str_in(section, line)
        THEN [st EXCEPT !.broke = TRUE]
        ELSE [st EXCEPT !.skills = @ \cup {s \in Range(potential_skills) : Len(s) > 2}]

\* The loop from line n on; break ends it.
RECURSIVE SkillsLoop(_, _, _)
SkillsLoop(lines, n, st) ==
    IF st.broke \/ n > Len(lines) THEN st
    ELSE SkillsLoop(lines, n + 1, SkillsStep(st, lines[n]))

\* The set that extract_skills has built when it returns.
extract_skills_set(text) == SkillsLoop(str_split_lines(text), 1, SkillsStart).skills

\* list(skills): the elements of the set once each, in the order in which
\* the set yields them, which the hashes of the strings decide (they change
\* from one run of the interpreter to the next).
ListsOf(S) == {l \in [1..Cardinality(S) -> S] : Range(l) = S}

\* What extract_skills may return.
extract_skills(text) == {Return(l) : l \in ListsOf(extract_skills_set(text))}

(***************************************************************************)
(* extract_summary: the non-blank lines among the first five that have     *)
(* none of three words, trimmed and joined.                                *)
(***************************************************************************)
SummaryStops == {"experience", "education", "skills"}

\* if line.strip() and not any(keyword in line.lower() for keyword in ...)
IsSummaryLine(line) ==
    str_strip(line) # "" /\ ~\E keyword \in SummaryStops : str_in(keyword, str_lower(line))

\* lines[:n]
Slice(lines, n) == SubSeq(lines, 1, IF Len(lines) < n THEN Len(lines) ELSE n)

\* [line.strip() for line in lines if the line is a summary line]
SummaryOf(lines) ==
    LET kept == SelectSeq(lines, IsSummaryLine)
    IN  [n \in DOMAIN kept |-> str_strip(kept[n])]

\* The fault of counting the lines that are kept instead of the lines that
\* are read: the first five summary lines of the whole text.
extract_summary_drawing_further_lines(text) ==
    str_join(Slice(SummaryOf(str_split_lines(text)), 5))

extract_summary(text) ==
    str_join(SummaryOf(Slice(str_split_lines(text), 5)))

(***************************************************************************)
(* calculate_keyword_match: the required skills that are in the lower-     *)
(* cased text, as substrings, and the others; the score is a float.        *)
(***************************************************************************)
\* 0.0, and the double (a / b) * 100 for ints a >= 0 and b > 0.
FloatZero == [hi |-> 0, mid |-> 0, lo |-> 0, e |-> 0]
float_percent(a, b) == IF a = 0 THEN FloatZero ELSE float_mul100(float_div(a, b))

\* The fault of collecting the skills in sets: a skill that is required twice
\* is reported once.
keyword_match_collapsing_duplicates(resume_text, required_skills) ==
    LET low            == str_lower(resume_text)
        Found(skill)   == str_in(str_lower(skill), low)
        Missing(skill) == ~Found(skill)
        First(k)       == \A j \in 1..(k - 1) : required_skills[j] # required_skills[k]
        firsts         == SelectSeq([k \in DOMAIN required_skills |-> k], First)
        distinct       == [n \in DOMAIN firsts |-> required_skills[firsts[n]]]
        found_skills   == SelectSeq(distinct, Found)
        missing_skills == SelectSeq(distinct, Missing)
    IN  [score          |-> IF Len(required_skills) > 0
                            THEN float_percent(Len(found_skills), Len(required_skills))
                            ELSE 0,
         found_skills   |-> found_skills,
         missing_skills |-> missing_skills]

calculate_keyword_match(resume_text, required_skills) ==
    LET low            == str_lower(resume_text)
        phrases        == str_split(low, ".")
        Found(skill)   ==
            \/ str_in(str_lower(skill), low)
            \/ \E p \in DOMAIN phrases : str_in(str_lower(skill), phrases[p])
        Missing(skill) == ~Found(skill)
        found_skills   == SelectSeq(required_skills, Found)
        missing_skills == SelectSeq(required_skills, Missing)
    IN  [score          |-> IF Len(required_skills) > 0
                            THEN float_percent(Len(found_skills), Len(required_skills))
                            ELSE 0,
         found_skills   |-> found_skills,
         missing_skills |-> missing_skills]

(***************************************************************************)
(* src/utils/database.py: the tables, the sessions and the rows that       *)
(* save_resume_data and save_ai_analysis_data build.  A session holds the  *)
(* rows added to it (pending) and the rows it has inserted in a            *)
(* transaction that is not committed (flushed).                            *)
(***************************************************************************)
\* The database once the module is imported: init_db has created the tables,
\* no row is stored and no session has been made.
Database == [rows |-> {}, sessions |-> << >>]

\* session = Session(): a session that is open, with nothing added to it.
NewSession == [state |-> "open", pending |-> {}, flushed |-> {}]

\* No exception, and the exception of a type raised by a statement of the
\* function.
NoException == [type |-> "", at |-> ""]
Exception(type, at) == [type |-> type, at |-> at]

\* json.dumps(data) of None or of a dict that has at most the keys
\* target_role, with a string, and photo, with bytes.
json_dumps(data) ==
    IF IsNone(data) THEN Return("null")
    ELSE IF "photo" \in DOMAIN data.items
    THEN Raise(Exception("TypeError", "json.dumps"))
    ELSE IF "target_role" \in DOMAIN data.items
    THEN Return("{\"target_role\": \"" \o data.items.target_role \o "\"}")
    ELSE Return("{}")

\* Lines 151-158: the Resume object of save_resume_data, or the exception
\* that building it raises.
NewResume(resume_data) ==
    IF json_dumps(resume_data).raised THEN json_dumps(resume_data)
    ELSE IF IsNone(resume_data) THEN Raise(Exception("AttributeError", "resume_data.get"))
    ELSE Return([table    |-> "resumes",
                 user_id  |-> "anonymous",
                 job_role |-> dict_get(resume_data.items, "target_role", "Unknown"),
                 content  |-> json_dumps(resume_data).value])

\* Lines 174-179: the AIAnalysis object of save_ai_analysis_data, or the
\* exception that building it raises.
NewAIAnalysis(resume_id, analysis_data) ==
    IF IsNone(analysis_data) THEN Raise(Exception("AttributeError", "analysis_data.get"))
    ELSE Return([table        |-> "ai_analyses",
                 resume_id    |-> resume_id,
                 model_used   |-> dict_get(analysis_data.items, "model_used", "Unknown"),
                 resume_score |-> dict_get(analysis_data.items, "resume_score", 0),
                 job_role     |-> dict_get(analysis_data.items, "job_role", "Unknown")])

\* The integer primary key of the next row of a table: one more than the
\* largest key stored.
NextId(rows, table) ==
    LET ids == {r.id : r \in {q \in rows : q.table = table}}
    IN  IF ids = {} THEN 1 ELSE 1 + CHOOSE m \in ids : \A k \in ids : k <= m

\* The row with its key.
WithId(row, id) == [k \in DOMAIN row \cup {"id"} |-> IF k = "id" THEN id ELSE row[k]]

(***************************************************************************)
(* The calls of a run.  Resume texts are built from a few pieces, so that  *)
(* every signal the scorers look at occurs, alone and next to the others:  *)
(* the lengths around the 100 and 200 character limits, a keyword as a     *)
(* whole word and inside a longer word, upper and lower case, blank lines, *)
(* a non-ASCII character.                                                  *)
(***************************************************************************)
Pad49 == "zzzzzzzzzzzzzzzzzzzzzzzzzzzzzzzzzzzzzzzzzzzzzzzzz"
Pad100 == Pad49 \o " " \o Pad49 \o "."

ScorePieces ==
    {Pad49, Pad100, "é", "\n", "Experience", "Education:", "skills", "work",
     "Skills\n\nProjects, summary"}

SkillPieces == {"Python", "sql", "C++", " "}

Skills == {"Python", "SQL", "C++"}

\* The strings made of at most n pieces.
RECURSIVE Concats(_, _)
Concats(pieces, n) ==
    IF n = 0 THEN {""}
    ELSE LET shorter == Concats(pieces, n - 1)
         IN  shorter \cup {s \o p : s \in shorter, p \in pieces}

\* The sequences over S of length at most n.
RECURSIVE SeqsUpTo(_, _)
SeqsUpTo(S, n) ==
    IF n = 0 THEN {<< >>}
    ELSE LET shorter == SeqsUpTo(S, n - 1)
         IN  shorter \cup {Append(q, x) : q \in shorter, x \in S}

ScoreTexts == Concats(ScorePieces, MaxPieces)
SkillTexts == Concats(SkillPieces, MaxSkills)

SkillLists == SeqsUpTo(Skills, MaxSkills)

\* 50 required skills of which the text below holds 29.
ManySkills == [i \in 1..50 |-> IF i <= 29 THEN "Python" ELSE "SQL"]

\* Texts whose only capital letter is accented or is followed by an accented
\* letter.
AccentTexts == {"École", "Ré\n\nsumé", "École Normale"}

\* Texts with the skill Java as a word of its own and inside a longer word.
JavaTexts == {"JavaScript", "Java. Script", "Javascript and java", "Script"}

Requirements(lists) ==
    {None, Dict(EmptyItems)} \cup {Dict([required_skills |-> l]) : l \in lists}

AnalyzeCall(text, job_requirements) ==
    [op               |-> "analyze_resume",
     resume_data      |-> [raw_text |-> text],
     job_requirements |-> job_requirements]

\* A call whose resume_data has no raw_text.
NoTextCall ==
    [op |-> "analyze_resume", resume_data |-> EmptyItems, job_requirements |-> None]

\* The lines of the texts given to the extractors: a blank line, a header of
\* each section alone on its line, a line with keywords of all three sections,
\* a line with a keyword of the education section only, a line with none.
Lines ==
    {"", " EDUCATION", "Experience", "Key Projects",
     "Education: B.Sc, work experience, key projects", "B.Sc Physics", "Physics 2020"}

\* '\n'.join(lines)
RECURSIVE JoinLines(_)
JoinLines(lines) ==
    IF Len(lines) = 0 THEN ""
    ELSE IF Len(lines) = 1 THEN lines[1]
    ELSE JoinLines(SubSeq(lines, 1, Len(lines) - 1)) \o "\n" \o lines[Len(lines)]

LineTexts == {JoinLines(l) : l \in SeqsUpTo(Lines, MaxLines)}

TextCall(op, text) == [op |-> op, text |-> text]

\* The texts given to check_formatting: a header line, a bullet line, blank
\* lines and a contact line, each in several forms or absent, then padding up
\* to a length on either side of the 300 characters.
HeaderLines == {"", "SKILLS\n", "Skills\n", "SKILLS 2020:\n", "2020\n"}
BulletLines ==
    {"", "- built a tool\n", "  * built a tool\n", Bullet \o " built a tool\n",
     MojibakeBullet \o " built a tool\n", "built - a tool\n"}
BlankLines == {"", "\n", " \n\t\n"}
ContactLines ==
    {"", "a.b@mail.example.com", "a@b", "555-123.4567", "5551234567", "15551234567",
     "linkedin.com/in", "LinkedIn.com/in"}
PaddedLengths == {0, 299, 300}

\* s, and a line of padding that brings it to n characters.
PadTo(s, n) ==
    IF Len(s) + 1 >= n THEN s
    ELSE s \o "\n" \o SubSeq(Pad100 \o Pad100 \o Pad100, 1, n - Len(s) - 1)

FormatTexts ==
    {PadTo(h \o b \o l \o c, n) :
        h \in HeaderLines, b \in BulletLines, l \in BlankLines, c \in ContactLines,
        n \in PaddedLengths}

Calls ==
    {TextCall("check_formatting", t) : t \in FormatTexts}
    \cup
    {TextCall(op, t) :
        op \in {"check_resume_sections", "extract_education", "extract_experience",
                "extract_projects"},
        t \in LineTexts}
    \cup
    {AnalyzeCall(t, None) : t \in ScoreTexts}
    \cup {AnalyzeCall(t, r) : t \in SkillTexts, r \in Requirements(SkillLists)}
    \cup {AnalyzeCall("Python", Dict([required_skills |-> ManySkills])), NoTextCall}
    \cup {AnalyzeCall(t, Dict([required_skills |-> <<"Java">>])) : t \in JavaTexts}
    \cup {AnalyzeCall(t, None) : t \in AccentTexts}

(***************************************************************************)
(* The state machine: a caller runs the submitted calls one after another  *)
(* on the analyzer.                                                        *)
(***************************************************************************)
Threads == 1..MaxThreads

\* A thread that is in no call.
Idle == [pc |-> "idle"]

Init ==
    /\ self = ResumeAnalyzer
    /\ queue \in {<<c>> : c \in Calls}
    /\ log = << >>
    /\ frames = [t \in Threads |-> Idle]
    /\ db = Database

\* The fault of consuming the keyword table: a call that empties the education
\* keywords of self.sections once it has scored.
AnalyzeResumeConsumingKeywords ==
    /\ queue # << >>
    /\ Head(queue).op = "analyze_resume"
    /\ LET c == Head(queue)
       IN  log' = Append(log,
                [call    |-> c,
                 outcome |-> Return(analyze_resume(self, c.resume_data, c.job_requirements))])
    /\ queue' = Tail(queue)
    /\ self' = [self EXCEPT !.sections.education = << >>]
    /\ UNCHANGED <<frames, db>>

\* analyze_resume runs to its return; it assigns no attribute of self.
AnalyzeResume ==
    /\ queue # << >>
    /\ Head(queue).op = "analyze_resume"
    /\ LET c == Head(queue)
       IN  log' = Append(log,
                [call    |-> c,
                 outcome |-> Return(analyze_resume(self, c.resume_data, c.job_requirements))])
    /\ queue' = Tail(queue)
    /\ UNCHANGED <<self, frames, db>>

\* One of the other methods runs to its return or to the exception that
\* leaves it.
CheckResumeSections ==
    /\ queue # << >>
    /\ Head(queue).op = "check_resume_sections"
    /\ log' = Append(log, [call    |-> Head(queue),
                           outcome |-> check_resume_sections(self, Head(queue).text)])
    /\ queue' = Tail(queue)
    /\ UNCHANGED <<self, frames, db>>

ExtractEducation ==
    /\ queue # << >>
    /\ Head(queue).op = "extract_education"
    /\ log' = Append(log, [call    |-> Head(queue),
                           outcome |-> extract_education(self, Head(queue).text)])
    /\ queue' = Tail(queue)
    /\ UNCHANGED <<self, frames, db>>

ExtractExperience ==
    /\ queue # << >>
    /\ Head(queue).op = "extract_experience"
    /\ log' = Append(log, [call    |-> Head(queue),
                           outcome |-> extract_experience(self, Head(queue).text)])
    /\ queue' = Tail(queue)
    /\ UNCHANGED <<self, frames, db>>

ExtractProjects ==
    /\ queue # << >>
    /\ Head(queue).op = "extract_projects"
    /\ log' = Append(log, [call    |-> Head(queue),
                           outcome |-> extract_projects(self, Head(queue).text)])
    /\ queue' = Tail(queue)
    /\ UNCHANGED <<self, frames, db>>

CheckFormatting ==
    /\ queue # << >>
    /\ Head(queue).op = "check_formatting"
    /\ log' = Append(log, [call    |-> Head(queue),
                           outcome |-> Return(check_formatting(Head(queue).text))])
    /\ queue' = Tail(queue)
    /\ UNCHANGED <<self, frames, db>>

Next ==
    \/ AnalyzeResume
    \/ CheckFormatting
    \/ CheckResumeSections
    \/ ExtractEducation
    \/ ExtractExperience
    \/ ExtractProjects

Spec == Init /\ [][Next]_vars

(***************************************************************************)
(* Several calls, one after another, on one analyzer.                      *)
(***************************************************************************)
\* A text whose last line has keywords of the three sections.
ThreeSectionText == "Intro\nEducation\nUniversity work experience, key projects"

FewCalls ==
    {AnalyzeCall("Education:", None),
     AnalyzeCall("Education:", Dict([required_skills |-> <<"Python", "SQL">>])),
     AnalyzeCall("Experienced in Python development", Dict([required_skills |-> <<"Python", "SQL">>])),
     AnalyzeCall("", None),
     TextCall("check_resume_sections", "Education:"),
     TextCall("extract_education", "Education\nB.Sc Physics\n\nPhysics 2020"),
     TextCall("extract_education", ThreeSectionText),
     TextCall("extract_experience", ThreeSectionText),
     TextCall("extract_projects", ThreeSectionText),
     TextCall("check_formatting", "SKILLS\n- built a tool\n555-123-4567")}

InitCalls ==
    /\ self = ResumeAnalyzer
    /\ queue \in SeqsUpTo(FewCalls, MaxCalls)
    /\ log = << >>
    /\ frames = [t \in Threads |-> Idle]
    /\ db = Database

SpecCalls == InitCalls /\ [][Next]_vars

(***************************************************************************)
(* analyze_resume in several threads on one analyzer.  A thread inside the *)
(* call holds the call's local variables in its frame; the values of the   *)
(* analysis dict are computed one after another, and another thread may    *)
(* run between any two of them.  began is the number of calls that had     *)
(* returned when the call was entered.                                     *)
(***************************************************************************)
\* The call is finished with result v.
Finish(t, v) ==
    /\ log' = Append(log, [call    |-> frames[t].call,
                           outcome |-> Return(v),
                           began   |-> frames[t].began])
    /\ frames' = [frames EXCEPT ![t] = Idle]

\* text = resume_data.get('raw_text', ''); an empty text returns at once.
Enter(t) ==
    /\ frames[t].pc = "idle"
    /\ queue # << >>
    /\ Head(queue).op = "analyze_resume"
    /\ queue' = Tail(queue)
    /\ LET c    == Head(queue)
           text == dict_get(c.resume_data, "raw_text", "")
       IN  IF Len(text) = 0
           THEN /\ log' = Append(log,
                        [call    |-> c,
                         outcome |-> Return([error |-> "No text content found in resume"]),
                         began   |-> Len(log)])
                /\ UNCHANGED frames
           ELSE /\ frames' = [frames EXCEPT ![t] =
                                 [pc |-> "ats_score", call |-> c, text |-> text,
                                  began |-> Len(log),
                                  analysis |-> [document_type |-> "resume"]]]
                /\ UNCHANGED log
    /\ UNCHANGED <<self, db>>

\* The frame of t with one more value of the analysis dict.
Scored(t, key, value, pc) ==
    [frames EXCEPT ![t].analysis = [k \in DOMAIN @ \cup {key} |->
                                       IF k = key THEN value ELSE @[k]],
                   ![t].pc = pc]

ScoreAts(t) ==
    /\ frames[t].pc = "ats_score"
    /\ frames' = Scored(t, "ats_score", _calculate_ats_score(frames[t].text), "format_score")
    /\ UNCHANGED <<self, queue, log, db>>

ScoreFormat(t) ==
    /\ frames[t].pc = "format_score"
    /\ frames' = Scored(t, "format_score", _calculate_format_score(frames[t].text),
                        "section_score")
    /\ UNCHANGED <<self, queue, log, db>>

\* The fault of consuming the keyword table while scoring the sections.
ScoreSectionsConsumingKeywords(t) ==
    /\ frames[t].pc = "section_score"
    /\ LET section == _calculate_section_score(self, frames[t].text)
       IN  IF section.raised
           THEN Finish(t, [error |-> "Error analyzing resume: " \o section.exc])
           ELSE /\ frames' = Scored(t, "section_score", section.value, "keyword_match")
                /\ UNCHANGED log
    /\ self' = [self EXCEPT !.sections.education = << >>]
    /\ UNCHANGED <<queue, db>>

\* The one step that reads self; an exception is caught and ends the call.
ScoreSections(t) ==
    /\ frames[t].pc = "section_score"
    /\ LET section == _calculate_section_score(self, frames[t].text)
       IN  IF section.raised
           THEN Finish(t, [error |-> "Error analyzing resume: " \o section.exc])
           ELSE /\ frames' = Scored(t, "section_score", section.value, "keyword_match")
                /\ UNCHANGED log
    /\ UNCHANGED <<self, queue, db>>

MatchKeywords(t) ==
    /\ frames[t].pc = "keyword_match"
    /\ frames' = Scored(t, "keyword_match",
                        _analyze_keyword_match(frames[t].text, frames[t].call.job_requirements),
                        "suggestions")
    /\ UNCHANGED <<self, queue, log, db>>

\* The last value, and the return of the analysis.
Suggest(t) ==
    /\ frames[t].pc = "suggestions"
    /\ Finish(t, Scored(t, "suggestions", _generate_suggestions(frames[t].text), "return")[t].analysis)
    /\ UNCHANGED <<self, queue, db>>

\* The calls the threads make: as many calls as there are threads, at most.
ThreadCalls ==
    {AnalyzeCall("Education:", None),
     AnalyzeCall("Experienced in Python development", Dict([required_skills |-> <<"Python", "SQL">>])),
     AnalyzeCall("", None)}

InitThreads ==
    /\ self = ResumeAnalyzer
    /\ queue \in SeqsUpTo(ThreadCalls, MaxThreads)
    /\ log = << >>
    /\ frames = [t \in Threads |-> Idle]
    /\ db = Database

NextThreads ==
    \E t \in Threads :
        \/ Enter(t)
        \/ ScoreAts(t)
        \/ ScoreFormat(t)
        \/ ScoreSections(t)
        \/ MatchKeywords(t)
        \/ Suggest(t)

SpecThreads == InitThreads /\ [][NextThreads]_vars

(***************************************************************************)
(* The methods that read the skills and the summary of a text, one call to *)
(* a run.                                                                  *)
(***************************************************************************)
\* The texts given to extract_skills are made of a line before the header,
\* a header (alone on its line, or with skills on it), lines of skills (with
\* short tokens, blanks around tokens, one skill in two cases, a blank
\* line), a line that ends the section (one of them by the letters of
\* 'Frameworks', one that is a header as well) and what follows it, a second
\* header included.
BeforeHeader == {"", "Rust, Java\n"}
SkillHeaders == {"", "Skills\n", "Technical SKILLS: Python, SQL\n"}
SkillBodies ==
    {"", "Python, SQL\n", " Go , C++,python,  Data Science \n", "Python, sql\n\nDocker\n"}
SectionEnds ==
    {"", "Work Experience\n", "Frameworks: Django\n", "EDUCATION\n", "Teamwork skills\n"}
AfterSection == {"", "Kotlin", "Skills\nKotlin"}

SkillSectionTexts ==
    {b \o h \o s \o e \o a :
        b \in BeforeHeader, h \in SkillHeaders, s \in SkillBodies, e \in SectionEnds,
        a \in AfterSection}

\* The texts given to extract_summary start with up to MaxLines lines (blank,
\* plain, with white space around them, with one of the three words) and go
\* on with lines that reach beyond the fifth line.
SummaryLines == {"", "Jane Doe", "  Data engineer\t", "Work Experience", "My SKILLS"}
SummaryTails ==
    {<< >>, <<"Python developer", "Education", "Builds tools", "Likes tea">>}

SummaryTexts ==
    {JoinLines(h \o t) : h \in SeqsUpTo(SummaryLines, MaxLines), t \in SummaryTails}

\* Lists in which a skill is required twice with another one in between.
RepeatingSkills == {<<"Python", "SQL", "Python">>, <<"SQL", "Python", "SQL", "SQL">>}

KeywordCall(resume_text, required_skills) ==
    [op |-> "calculate_keyword_match", resume_text |-> resume_text,
     required_skills |-> required_skills]

SkillsCalls ==
    LET texts == SkillTexts \cup JavaTexts
        lists == SkillLists \cup RepeatingSkills \cup {<<"Java">>}
    IN  {TextCall("extract_skills", t) : t \in SkillSectionTexts}
        \cup {TextCall("extract_summary", t) : t \in SummaryTexts}
        \cup {KeywordCall(t, l) : t \in texts, l \in lists}
        \cup {AnalyzeCall(t, Dict([required_skills |-> l])) : t \in texts, l \in lists}

InitSkills ==
    /\ self = ResumeAnalyzer
    /\ queue \in {<<c>> : c \in SkillsCalls}
    /\ log = << >>
    /\ frames = [t \in Threads |-> Idle]
    /\ db = Database

\* extract_skills runs to its return; the order of the list it returns is
\* any order of the set.
ExtractSkills ==
    /\ queue # << >>
    /\ Head(queue).op = "extract_skills"
    /\ \E outcome \in extract_skills(Head(queue).text) :
           log' = Append(log, [call |-> Head(queue), outcome |-> outcome])
    /\ queue' = Tail(queue)
    /\ UNCHANGED <<self, frames, db>>

ExtractSummary ==
    /\ queue # << >>
    /\ Head(queue).op = "extract_summary"
    /\ log' = Append(log, [call    |-> Head(queue),
                           outcome |-> Return(extract_summary(Head(queue).text))])
    /\ queue' = Tail(queue)
    /\ UNCHANGED <<self, frames, db>>

CalculateKeywordMatch ==
    /\ queue # << >>
    /\ Head(queue).op = "calculate_keyword_match"
    /\ LET c == Head(queue)
       IN  log' = Append(log,
                [call    |-> c,
                 outcome |-> Return(calculate_keyword_match(c.resume_text,
                                                            c.required_skills))])
    /\ queue' = Tail(queue)
    /\ UNCHANGED <<self, frames, db>>

NextSkills ==
    \/ AnalyzeResume
    \/ CalculateKeywordMatch
    \/ ExtractSkills
    \/ ExtractSummary

SpecSkills == InitSkills /\ [][NextSkills]_vars

(***************************************************************************)
(* save_resume_data and save_ai_analysis_data, statement by statement: one *)
(* caller makes up to MaxSaves calls one after another.  The statements of *)
(* the try blocks may raise: making the session (get_database_connection   *)
(* then returns None), building the row from the arguments, add, and       *)
(* commit, before or after it has inserted the row.  The frame keeps the   *)
(* first exception raised in the call (failed) next to the one that is     *)
(* propagating (exc).                                                      *)
(***************************************************************************)
Caller == 1

\* session is None.
NoSession == 0

\* The calls: the arguments are a dict with its keys, an empty dict, None
\* and, for resume_data, a dict with a value that json cannot serialize
\* (bytes, under the key photo).
SaveCalls ==
    LET resume_datas ==
            {Dict([target_role |-> "Engineer"]), Dict(EmptyItems),
             Dict([target_role |-> "Engineer", photo |-> [type |-> "bytes"]]), None}
        analysis_datas ==
            {Dict([model_used |-> "gemini", resume_score |-> 80, job_role |-> "Engineer"]),
             Dict(EmptyItems), None}
    IN  {[op |-> "save_resume_data", resume_data |-> d] : d \in resume_datas}
        \cup {[op |-> "save_ai_analysis_data", resume_id |-> 1, analysis_data |-> d] :
                d \in analysis_datas}

InitDatabase ==
    /\ self = ResumeAnalyzer
    /\ queue \in SeqsUpTo(SaveCalls, MaxSaves)
    /\ log = << >>
    /\ frames = [t \in Threads |-> Idle]
    /\ db = Database

\* The frame of the caller at its next statement, with some variables
\* assigned.
Goto(pc, assigned) ==
    [frames EXCEPT ![Caller] =
        [k \in DOMAIN @ |-> IF k = "pc" THEN pc
                            ELSE IF k \in DOMAIN assigned THEN assigned[k] ELSE @[k]]]

\* The frame with an exception raised in the try block: control goes to the
\* except clause.
Except(e) == Goto("except", [exc |-> e, failed |-> e])

\* session = get_database_connection(): a new session, or None when making
\* it raised.
GetDatabaseConnection ==
    /\ frames[Caller].pc = "idle"
    /\ queue # << >>
    /\ Head(queue).op \in {"save_resume_data", "save_ai_analysis_data"}
    /\ \E connected \in BOOLEAN :
           /\ db' = IF connected THEN [db EXCEPT !.sessions = Append(@, NewSession)] ELSE db
           /\ frames' = [frames EXCEPT ![Caller] =
                  [pc          |-> "build",
                   call        |-> Head(queue),
                   session     |-> IF connected THEN Len(db.sessions) + 1 ELSE NoSession,
                   row         |-> [table |-> ""],
                   id          |-> 0,
                   value       |-> 0,
                   exc         |-> NoException,
                   failed      |-> NoException,
                   rolled_back |-> FALSE]]
    /\ queue' = Tail(queue)
    /\ UNCHANGED <<self, log>>

\* The statements before session.add: they build the row, or raise.
BuildRow ==
    /\ frames[Caller].pc = "build"
    /\ LET c     == frames[Caller].call
           built == IF c.op = "save_resume_data" THEN NewResume(c.resume_data)
                    ELSE NewAIAnalysis(c.resume_id, c.analysis_data)
       IN  frames' = IF built.raised THEN Except(built.exc)
                     ELSE Goto("add", [row |-> built.value])
    /\ UNCHANGED <<self, queue, log, db>>

\* session.add(row)
Add ==
    /\ frames[Caller].pc = "add"
    /\ LET s == frames[Caller].session
       IN  IF s = NoSession
           THEN /\ frames' = Except(Exception("AttributeError", "session.add"))
                /\ UNCHANGED db
           ELSE \E added \in BOOLEAN :
                    IF added
                    THEN /\ db' = [db EXCEPT !.sessions[s].pending = @ \cup {frames[Caller].row}]
                         /\ frames' = Goto("commit", << >>)
                    ELSE /\ frames' = Except(Exception("SQLAlchemyError", "session.add"))
                         /\ UNCHANGED db
    /\ UNCHANGED <<self, queue, log>>

\* session.commit(): the pending row is inserted with its key and the
\* transaction is committed; the insert may fail, and so may the commit after
\* the insert.
Commit ==
    /\ frames[Caller].pc = "commit"
    /\ LET s   == frames[Caller].session
           id  == NextId(db.rows, frames[Caller].row.table)
           row == WithId(frames[Caller].row, id)
       IN  \E outcome \in {"committed", "insert fails", "commit fails"} :
               IF outcome = "committed"
               THEN /\ db' = [db EXCEPT !.rows = @ \cup {row}, !.sessions[s].pending = {}]
                    /\ frames' = Goto("return", [id |-> id])
               ELSE IF outcome = "insert fails"
               THEN /\ frames' = Except(Exception("SQLAlchemyError", "session.commit"))
                    /\ UNCHANGED db
               ELSE /\ db' = [db EXCEPT !.sessions[s].pending = {},
                                        !.sessions[s].flushed = {row}]
                    /\ frames' = Except(Exception("SQLAlchemyError", "session.commit"))
    /\ UNCHANGED <<self, queue, log>>

\* return resume.id / return ai_analysis.id: the value is kept until the
\* finally clause has run.
ReturnId ==
    /\ frames[Caller].pc = "return"
    /\ frames' = Goto("finally", [value |-> frames[Caller].id])
    /\ UNCHANGED <<self, queue, log, db>>

\* except Exception as e: session.rollback(); raise e
Rollback ==
    /\ frames[Caller].pc = "except"
    /\ LET s == frames[Caller].session
       IN  IF s = NoSession
           THEN /\ frames' = Goto("finally",
                                  [exc |-> Exception("AttributeError", "session.rollback")])
                /\ UNCHANGED db
           ELSE /\ db' = [db EXCEPT !.sessions[s].pending = {}, !.sessions[s].flushed = {}]
                /\ frames' = Goto("finally", [rolled_back |-> TRUE])
    /\ UNCHANGED <<self, queue, log>>

\* finally: session.close(), then the return or the exception that was on
\* its way; an exception of the finally clause takes their place.
Close ==
    /\ frames[Caller].pc = "finally"
    /\ LET f == frames[Caller]
           s == f.session
       IN  /\ db' = IF s = NoSession THEN db
                    ELSE [db EXCEPT !.sessions[s] =
                              [state |-> "closed", pending |-> {}, flushed |-> {}]]
           /\ log' = Append(log,
                  [call        |-> f.call,
                   outcome     |-> IF s = NoSession
                                   THEN Raise(Exception("AttributeError", "session.close"))
                                   ELSE IF f.exc # NoException THEN Raise(f.exc)
                                   ELSE Return(f.value),
                   session     |-> s,
                   failed      |-> f.failed,
                   rolled_back |-> f.rolled_back])
    /\ frames' = [frames EXCEPT ![Caller] = Idle]
    /\ UNCHANGED <<self, queue>>

NextDatabase ==
    \/ GetDatabaseConnection
    \/ BuildRow
    \/ Add
    \/ Commit
    \/ ReturnId
    \/ Rollback
    \/ Close

SpecDatabase == InitDatabase /\ [][NextDatabase]_vars

(***************************************************************************)
(* What the properties below speak of.                                     *)
(***************************************************************************)
Analyses == {i \in DOMAIN log : log[i].call.op = "analyze_resume"}

\* The resume text of an analyze_resume call, and what the call returned.
TextOf(i) == dict_get(log[i].call.resume_data, "raw_text", "")
RequirementsOf(i) == log[i].call.job_requirements
Returned(i) == ~log[i].outcome.raised
ResultOf(i) == log[i].outcome.value

ReportFields == {"ats_score", "format_score", "section_score", "keyword_match", "suggestions"}

IsError(v) == "error" \in DOMAIN v /\ DOMAIN v \cap ReportFields = {}
IsReport(v) == ReportFields \subseteq DOMAIN v /\ "error" \notin DOMAIN v

\* The text is not empty and is made of spaces, tabs and line breaks only.
WhitespaceOnly(t) ==
    Len(t) > 0 /\ \A k \in 1..Len(t) : SubSeq(t, k, k) \in Whitespace

\* The job requirements hold a list of skills.
HasSkillList(r) == ~IsNone(r) /\ "required_skills" \in DOMAIN r.items

\* Two characters are the same letter, whatever their case.
FoldCase(c) == IF c \in DOMAIN ToLower THEN ToLower[c] ELSE c
SameLetter(c, l) == FoldCase(c) = FoldCase(l)

\* Word w stands in text t at position i, whatever the case of t's letters.
OccursAt(t, w, i) ==
    /\ i >= 1
    /\ i + Len(w) - 1 <= Len(t)
    /\ \A k \in 1..Len(w) : SameLetter(SubSeq(t, i + k - 1, i + k - 1), SubSeq(w, k, k))

Occurs(t, w) == \E i \in 1..Len(t) : OccursAt(t, w, i)

\* ... with no letter, digit or underscore right before or right after it.
OccursAsWord(t, w) ==
    \E i \in 1..Len(t) :
        OccursAt(t, w, i) /\ ~IsWordAt(t, i - 1) /\ ~IsWordAt(t, i + Len(w))

(***************************************************************************)
(* C1: for every non-empty resume text, analyze_resume returns ats_score,  *)
(* format_score and section_score, each an integer from 0 to 100.          *)
(***************************************************************************)
C1_ScoresInRange ==
    \A i \in Analyses :
        Len(TextOf(i)) > 0 =>
            /\ Returned(i)
            /\ {"ats_score", "format_score", "section_score"} \subseteq DOMAIN ResultOf(i)
            /\ ResultOf(i).ats_score \in 0..100
            /\ ResultOf(i).format_score \in 0..100
            /\ ResultOf(i).section_score \in 0..100

\* A text that loses points on every one of the three scores has been scored.
C1_Witness ==
    \E i \in Analyses :
        /\ Len(TextOf(i)) > 0
        /\ IsReport(ResultOf(i))
        /\ ResultOf(i).ats_score = 55
        /\ ResultOf(i).format_score = 80
        /\ ResultOf(i).section_score = 0

(***************************************************************************)
(* C2: analyze_resume on the empty string ends in an error outcome and     *)
(* produces no score report.                                               *)
(***************************************************************************)
C2_EmptyTextIsError ==
    \A i \in Analyses :
        ("raw_text" \in DOMAIN log[i].call.resume_data /\ TextOf(i) = "") =>
            Returned(i) /\ IsError(ResultOf(i))

C2_Witness ==
    \E i \in Analyses :
        /\ "raw_text" \in DOMAIN log[i].call.resume_data
        /\ TextOf(i) = ""
        /\ ResultOf(i) = [error |-> "No text content found in resume"]

(***************************************************************************)
(* C3: analyze_resume on a non-empty text made of whitespace only ends in  *)
(* the same error outcome as the empty string and produces no score        *)
(* report.                                                                 *)
(***************************************************************************)
C3_WhitespaceIsError ==
    \A i \in Analyses :
        WhitespaceOnly(TextOf(i)) =>
            Returned(i) /\ ResultOf(i) = [error |-> "No text content found in resume"]

(***************************************************************************)
(* C4: for every non-empty text and job requirements that are absent or    *)
(* hold a list of skills, analyze_resume returns a complete report         *)
(* (ats_score, format_score, section_score, keyword_match, suggestions)    *)
(* and never an error outcome or an exception.                             *)
(***************************************************************************)
C4_CompleteReport ==
    \A i \in Analyses :
        (Len(TextOf(i)) > 0 /\ (IsNone(RequirementsOf(i)) \/ HasSkillList(RequirementsOf(i)))) =>
            Returned(i) /\ IsReport(ResultOf(i))

\* Both kinds of requirements have been analyzed, the text without any signal.
C4_Witness ==
    \E i \in Analyses :
        /\ Len(TextOf(i)) > 0
        /\ HasSkillList(RequirementsOf(i))
        /\ Len(RequirementsOf(i).items.required_skills) = 2
        /\ IsReport(ResultOf(i))
        /\ Len(ResultOf(i).suggestions) = 4

(***************************************************************************)
(* C5: every scorer and every field extractor of ResumeAnalyzer is total:  *)
(* whatever the text, the call returns a value and raises nothing.         *)
(***************************************************************************)
C5_EveryCallReturns == \A i \in DOMAIN log : Returned(i)

(***************************************************************************)
(* C6: two analyze_resume calls on one analyzer with the same text and the *)
(* same job requirements give the same result, whatever calls ran between  *)
(* them.                                                                   *)
(***************************************************************************)
C6_SameCallSameResult ==
    \A i, j \in Analyses :
        log[i].call = log[j].call => log[i].outcome = log[j].outcome

\* The same text was scored twice with another analysis in between.
C6_Witness ==
    \E i, j \in Analyses :
        /\ i + 1 < j
        /\ log[i].call = log[j].call
        /\ log[i + 1].call # log[i].call
        /\ log[i + 1].call.op = "analyze_resume"
        /\ IsReport(ResultOf(i))
        /\ ResultOf(i).section_score = 20

(***************************************************************************)
(* C7: for a non-empty list of required skills the keyword match has       *)
(* score = 100 * foundCount / totalRequired rounded down, found_skills     *)
(* holding exactly the required skills that are in the text (in either     *)
(* case) and missing_skills exactly the others; for an empty list the      *)
(* score is 0.                                                             *)
(***************************************************************************)
RequiredOf(i) == RequirementsOf(i).items.required_skills

\* The places of the required skills that stand in the text as whole words.
PresentSkills(i) == {k \in DOMAIN RequiredOf(i) : OccursAsWord(TextOf(i), RequiredOf(i)[k])}

C7_ScoreIsFoundShare(i) ==
    LET km == ResultOf(i).keyword_match
    IN  km.score = IF Len(RequiredOf(i)) > 0
                   THEN (100 * Len(km.found_skills)) \div Len(RequiredOf(i))
                   ELSE 0

C7_FoundAreThePresent(i) ==
    LET km == ResultOf(i).keyword_match
    IN  /\ Range(km.found_skills) = {RequiredOf(i)[k] : k \in PresentSkills(i)}
        /\ Range(km.missing_skills) = {RequiredOf(i)[k] : k \in DOMAIN RequiredOf(i) \ PresentSkills(i)}
        /\ Len(km.found_skills) = Cardinality(PresentSkills(i))

C7_KeywordMatch ==
    \A i \in Analyses :
        (Len(TextOf(i)) > 0 /\ HasSkillList(RequirementsOf(i))) =>
            /\ Returned(i)
            /\ "keyword_match" \in DOMAIN ResultOf(i)
            /\ {"score", "found_skills", "missing_skills"}
                   \subseteq DOMAIN ResultOf(i).keyword_match
            /\ C7_ScoreIsFoundShare(i)
            /\ C7_FoundAreThePresent(i)

(***************************************************************************)
(* C8: without job requirements the keyword match of analyze_resume has    *)
(* all three fields: score 0, an empty missing_skills and an empty         *)
(* found_skills.                                                           *)
(***************************************************************************)
C8_AbsentRequirementsWellFormed ==
    \A i \in Analyses :
        (Len(TextOf(i)) > 0 /\ IsNone(RequirementsOf(i))) =>
            /\ Returned(i)
            /\ "keyword_match" \in DOMAIN ResultOf(i)
            /\ {"score", "found_skills", "missing_skills"}
                   \subseteq DOMAIN ResultOf(i).keyword_match
            /\ ResultOf(i).keyword_match.score = 0
            /\ ResultOf(i).keyword_match.missing_skills = << >>
            /\ ResultOf(i).keyword_match.found_skills = << >>

(***************************************************************************)
(* C9: the ATS score is 100, minus 20 for a text under 100 characters,     *)
(* minus 15 when none of experience, education, skills occurs as a whole   *)
(* word in either case, minus 10 when the text has a non-ASCII character;  *)
(* the deductions are independent and the score is never below 0.  A text  *)
(* of 50 characters with none of the words and one non-ASCII character     *)
(* scores 55.                                                              *)
(***************************************************************************)
AtsWords == {"experience", "education", "skills"}

NonAsciiCount(t) == Cardinality({k \in 1..Len(t) : SubSeq(t, k, k) \notin AsciiChars})

ExpectedAts(t) ==
    LET short   == IF Len(t) < 100 THEN 20 ELSE 0
        nowords == IF \A w \in AtsWords : ~OccursAsWord(t, w) THEN 15 ELSE 0
        foreign == IF NonAsciiCount(t) > 0 THEN 10 ELSE 0
        score   == 100 - short - nowords - foreign
    IN  IF score < 0 THEN 0 ELSE score

C9_AtsScore ==
    \A i \in Analyses :
        Len(TextOf(i)) > 0 =>
            /\ Returned(i)
            /\ "ats_score" \in DOMAIN ResultOf(i)
            /\ ResultOf(i).ats_score = ExpectedAts(TextOf(i))
            /\ (/\ Len(TextOf(i)) = 50
                /\ NonAsciiCount(TextOf(i)) = 1
                /\ \A w \in AtsWords : ~OccursAsWord(TextOf(i), w))
                   => ResultOf(i).ats_score = 55

\* The 50-character text of the example has been scored.
C9_Witness ==
    \E i \in Analyses :
        /\ Len(TextOf(i)) = 50
        /\ NonAsciiCount(TextOf(i)) = 1
        /\ \A w \in AtsWords : ~OccursAsWord(TextOf(i), w)
        /\ IsReport(ResultOf(i))
        /\ ResultOf(i).ats_score = 55

(***************************************************************************)
(* C10: the section score is 100 * k / 5, k being the number of the five   *)
(* sections education, experience, skills, projects, summary with at least *)
(* one of their keywords anywhere in the text, in either case; a text that *)
(* is only an "Education: ..." line scores 20.                             *)
(***************************************************************************)
CanonicalSections == {"education", "experience", "skills", "projects", "summary"}

SectionsPresent(t) ==
    {sec \in CanonicalSections :
        \E k \in DOMAIN ResumeAnalyzer.sections[sec] :
            Occurs(t, ResumeAnalyzer.sections[sec][k])}

C10_SectionScore ==
    \A i \in Analyses :
        Len(TextOf(i)) > 0 =>
            /\ Returned(i)
            /\ "section_score" \in DOMAIN ResultOf(i)
            /\ 5 * ResultOf(i).section_score = 100 * Cardinality(SectionsPresent(TextOf(i)))
            /\ SectionsPresent(TextOf(i)) = {"education"} => ResultOf(i).section_score = 20

\* The "Education: ..." line has been scored.
C10_Witness ==
    \E i \in Analyses :
        /\ OccursAt(TextOf(i), "education:", 1)
        /\ SectionsPresent(TextOf(i)) = {"education"}
        /\ IsReport(ResultOf(i))
        /\ ResultOf(i).section_score = 20

(***************************************************************************)
(* C11: the suggestions are exactly the messages of the rules that fire    *)
(* (1 text under 200 characters, 2 no experience word, 3 no education      *)
(* word, 4 no skills word), each rule judged on its own, in rule order,    *)
(* none twice, none empty; a text under 200 characters with none of the    *)
(* words gets four suggestions.                                            *)
(***************************************************************************)
RuleMessage == <<TooShort, NoExperience, NoEducation, NoSkills>>

RuleWords ==
    <<{}, {"experience", "work", "job"},
      {"education", "university", "college", "school"},
      {"skills", "expertise", "competencies"}>>

RuleFires(t, r) ==
    IF r = 1 THEN Len(t) < 200 ELSE \A w \in RuleWords[r] : ~OccursAsWord(t, w)

C11_Suggestions ==
    \A i \in Analyses :
        Len(TextOf(i)) > 0 =>
            /\ Returned(i)
            /\ "suggestions" \in DOMAIN ResultOf(i)
            /\ LET s == ResultOf(i).suggestions
                   t == TextOf(i)
               IN  /\ \A k \in DOMAIN s : s[k] # "" /\ s[k] \in Range(RuleMessage)
                   /\ \A r \in DOMAIN RuleMessage :
                          RuleFires(t, r) <=> \E k \in DOMAIN s : s[k] = RuleMessage[r]
                   /\ \A k, l \in DOMAIN s :
                          k < l => \E r, q \in DOMAIN RuleMessage :
                                      r < q /\ s[k] = RuleMessage[r] /\ s[l] = RuleMessage[q]
                   /\ (\A r \in DOMAIN RuleMessage : RuleFires(t, r))
                          => Len(s) = 4 /\ s = RuleMessage

\* A short text without any of the words got the four suggestions.
C11_Witness ==
    \E i \in Analyses :
        /\ Len(TextOf(i)) \in 1..199
        /\ \A r \in DOMAIN RuleMessage : RuleFires(TextOf(i), r)
        /\ IsReport(ResultOf(i))
        /\ ResultOf(i).suggestions = RuleMessage

(***************************************************************************)
(* What the properties of the extractors speak of.                         *)
(***************************************************************************)
\* The calls of one extractor, the lines of a text without the white space
\* around them, and the entries a call returned.
CallsOf(op) == {i \in DOMAIN log : log[i].call.op = op}
StrippedLines(t) == [n \in DOMAIN str_split_lines(t) |-> str_strip(str_split_lines(t)[n])]
EntriesOf(i) == log[i].outcome.value

\* The three extractors have run on one text: calls i, j and k.
SameDocument(i, j, k) ==
    /\ i \in CallsOf("extract_education")
    /\ j \in CallsOf("extract_experience")
    /\ k \in CallsOf("extract_projects")
    /\ log[i].call.text = log[j].call.text
    /\ log[j].call.text = log[k].call.text

\* The entries, over calls I, that hold the line.
Holders(I, line) ==
    {h \in I \X (1..MaxLines) :
        h[2] \in DOMAIN EntriesOf(h[1]) /\ str_in(line, EntriesOf(h[1])[h[2]])}

(***************************************************************************)
(* C12: when the three entry extractors have run on one document, every    *)
(* non-blank line of the document is in exactly one entry of exactly one   *)
(* of them: no line is lost, none is put in two blocks.                    *)
(***************************************************************************)
C12_NothingLostOrDuplicated ==
    \A i, j, k \in DOMAIN log :
        SameDocument(i, j, k) =>
            /\ Returned(i) /\ Returned(j) /\ Returned(k)
            /\ LET lines == StrippedLines(log[i].call.text)
               IN  \A n \in DOMAIN lines :
                       lines[n] # "" => Cardinality(Holders({i, j, k}, lines[n])) = 1

(***************************************************************************)
(* C13: analyze_resume calls that overlap on one analyzer each return what *)
(* the same call returns when it runs alone on a new analyzer, and no call *)
(* changes an attribute of the analyzer.                                   *)
(***************************************************************************)
C13_IndependentCalls ==
    /\ self = ResumeAnalyzer
    /\ \A i \in Analyses :
           log[i].outcome =
               Return(analyze_resume(ResumeAnalyzer, log[i].call.resume_data,
                                     log[i].call.job_requirements))

\* Two calls on different texts overlapped: the later to return had begun
\* before the other returned.
C13_Witness ==
    \E i, j \in Analyses :
        /\ i < j
        /\ log[j].began < i
        /\ TextOf(i) # TextOf(j)
        /\ IsReport(ResultOf(i))
        /\ IsReport(ResultOf(j))

(***************************************************************************)
(* C14: in the keyword match of analyze_resume a required skill is in      *)
(* found_skills, and not in missing_skills, exactly when it occurs in the  *)
(* text as a whole word or inside one of the text's period-delimited       *)
(* fragments, in either case; Java is found in a text that has only        *)
(* JavaScript.                                                             *)
(***************************************************************************)
\* w lies within one fragment: it occurs, and spans no period.
OccursInFragment(t, w) == Occurs(t, w) /\ "." \notin CharsOf(w)

C14_WordOrSubstring ==
    \A i \in Analyses :
        (Len(TextOf(i)) > 0 /\ HasSkillList(RequirementsOf(i))) =>
            /\ Returned(i)
            /\ "keyword_match" \in DOMAIN ResultOf(i)
            /\ {"found_skills", "missing_skills"} \subseteq DOMAIN ResultOf(i).keyword_match
            /\ \A k \in DOMAIN RequiredOf(i) :
                   LET skill == RequiredOf(i)[k]
                       km    == ResultOf(i).keyword_match
                   IN  IF OccursAsWord(TextOf(i), skill) \/ OccursInFragment(TextOf(i), skill)
                       THEN skill \in Range(km.found_skills)
                            /\ skill \notin Range(km.missing_skills)
                       ELSE skill \in Range(km.missing_skills)
                            /\ skill \notin Range(km.found_skills)

(***************************************************************************)
(* C15: the format score is 100, minus 10 when the text has no two line    *)
(* breaks in a row, minus 10 when it has no capitalized word, a letter A   *)
(* to Z followed by a letter a to z; each deduction is made whether or not *)
(* the other is, and the score is never below 0.                           *)
(***************************************************************************)
HasBlankLineBreak(t) ==
    \E k \in 1..Len(t) : SubSeq(t, k, k) = "\n" /\ k < Len(t) /\ SubSeq(t, k + 1, k + 1) = "\n"

HasCapitalizedWord(t) ==
    \E k \in 1..Len(t) :
        /\ str_in(SubSeq(t, k, k), UpperLetters)
        /\ k < Len(t)
        /\ str_in(SubSeq(t, k + 1, k + 1), LowerLetters)

C15_FormatScore ==
    \A i \in Analyses :
        Len(TextOf(i)) > 0 =>
            /\ Returned(i)
            /\ "format_score" \in DOMAIN ResultOf(i)
            /\ LET score == ResultOf(i).format_score
                   t     == TextOf(i)
               IN  /\ score >= 0
                   /\ score = 100 - (IF HasBlankLineBreak(t) THEN 0 ELSE 10)
                                  - (IF HasCapitalizedWord(t) THEN 0 ELSE 10)

\* The second deduction has been made without the first.
C15_Witness ==
    \E i \in Analyses :
        /\ IsReport(ResultOf(i))
        /\ HasBlankLineBreak(TextOf(i))
        /\ ~HasCapitalizedWord(TextOf(i))
        /\ ResultOf(i).format_score = 90

(***************************************************************************)
(* C16: check_formatting returns max(0, 100 - the deductions made), the    *)
(* deductions being 30 for a text under 300 characters, 20 for no fully    *)
(* upper-case line, 20 for no line that starts with a bullet marker, 15    *)
(* for two blank lines in a row and 15 for no contact pattern, and one     *)
(* reason per deduction made, in this order; the score is 100 exactly when *)
(* there is no reason.                                                     *)
(***************************************************************************)
FormatRules ==
    <<[rule |-> 1, points |-> 30, reason |-> TooShortReason],
      [rule |-> 2, points |-> 20, reason |-> NoHeadersReason],
      [rule |-> 3, points |-> 20, reason |-> NoBulletsReason],
      [rule |-> 4, points |-> 15, reason |-> SpacingReason],
      [rule |-> 5, points |-> 15, reason |-> NoContactReason]>>

\* The line has a letter and all its letters are capitals.
IsUpperLine(l) ==
    /\ \E k \in 1..Len(l) : FoldCase(SubSeq(l, k, k)) # SubSeq(l, k, k)
    /\ \A k \in 1..Len(l) : SubSeq(l, k, k) \notin LowerChars

\* The line starts, after its indentation, with one of the markers.
IsBulletLine(l, markers) == \E m \in markers : OccursAt(str_strip(l), m, 1)

Deducts(t, r, markers) ==
    LET lines == StrippedLines(t)
        raw   == str_split_lines(t)
    IN  CASE r = 1 -> Len(t) < 300
          [] r = 2 -> \A n \in DOMAIN raw : ~IsUpperLine(raw[n])
          [] r = 3 -> \A n \in DOMAIN raw : ~IsBulletLine(raw[n], markers)
          [] r = 4 -> \E n \in DOMAIN lines :
                          n + 1 \in DOMAIN lines /\ lines[n] = "" /\ lines[n + 1] = ""
          [] r = 5 -> ~(re_search_email(t) \/ re_search_phone(t) \/ re_search_linkedin(t))

\* Every check_formatting call returned the score and the reasons of the rules,
\* a bullet line being one that starts with one of the markers.
FormatCheckAgrees(markers) ==
    \A i \in CallsOf("check_formatting") :
        /\ Returned(i)
        /\ LET t        == log[i].call.text
               score    == ResultOf(i)[1]
               reasons  == ResultOf(i)[2]
               Fired(f) == Deducts(t, f.rule, markers)
               fired    == SelectSeq(FormatRules, Fired)
               total    == SumOver(DOMAIN fired, [k \in DOMAIN fired |-> fired[k].points])
           IN  /\ score = (IF total > 100 THEN 0 ELSE 100 - total)
               /\ reasons = [k \in DOMAIN fired |-> fired[k].reason]
               /\ score = 100 <=> reasons = << >>

C16_FormattingCheck == FormatCheckAgrees({Bullet, "-", "*"})

(***************************************************************************)
(* C17: for every text check_resume_sections returns the sum, over the     *)
(* sections of the analyzer, of min(25, 25 * matched / total), matched     *)
(* being the number of the section's keywords that occur in the text and   *)
(* total the number of its keywords; each section gives 0 to 25 points.    *)
(***************************************************************************)
\* The number of the section's keywords in the text, and the number it has.
MatchedKeywords(t, sec) ==
    Cardinality({k \in DOMAIN ResumeAnalyzer.sections[sec] :
                    Occurs(t, ResumeAnalyzer.sections[sec][k])})
TotalKeywords(sec) == Len(ResumeAnalyzer.sections[sec])

\* The points of a section times d, a multiple of its number of keywords.
SectionPoints(t, sec, d) ==
    LET share == 25 * MatchedKeywords(t, sec) * (d \div TotalKeywords(sec))
    IN  IF share > 25 * d THEN 25 * d ELSE share

C17_SectionDensity ==
    \A i \in CallsOf("check_resume_sections") :
        /\ Returned(i)
        /\ LET t   == log[i].call.text
               d   == ProductOver(CanonicalSections,
                                  [sec \in CanonicalSections |-> TotalKeywords(sec)])
               sum == SumOver(CanonicalSections,
                              [sec \in CanonicalSections |-> SectionPoints(t, sec, d)])
           IN  \* the value returned, a fraction, is sum / d
               ResultOf(i)[1] * d = sum * ResultOf(i)[2]

(***************************************************************************)
(* C18: a line with keywords of more than one section belongs to one       *)
(* section only, the first of education, experience, projects whose        *)
(* keywords it has: when the three extractors have run on one document,    *)
(* the line is in the entries of that section's extractor and in no entry  *)
(* of the two others.                                                      *)
(***************************************************************************)
\* The keywords of the extractors, in the order of priority.
SectionKeywords == <<education_keywords, experience_keywords, project_keywords>>

\* The places, in that order, of the sections whose keywords the line has.
SectionsOf(line) == {p \in DOMAIN SectionKeywords : AnyKeywordIn(SectionKeywords[p], line)}

C18_FirstSectionOnly ==
    \A i, j, k \in DOMAIN log :
        SameDocument(i, j, k) =>
            /\ Returned(i) /\ Returned(j) /\ Returned(k)
            /\ LET lines == StrippedLines(log[i].call.text)
                   calls == <<i, j, k>>
               IN  \A n \in DOMAIN lines :
                       Cardinality(SectionsOf(lines[n])) > 1 =>
                           \A p \in DOMAIN calls :
                               Holders({calls[p]}, lines[n]) # {}
                                   <=> \A q \in SectionsOf(lines[n]) : p <= q

(***************************************************************************)
(* C19: in extract_education, extract_experience and extract_projects a    *)
(* line that is, trimmed and in either case, one of the section's keywords *)
(* only opens the section and gives no content, and a line that has a      *)
(* keyword without being one is content of the current entry: the entries  *)
(* a call returns are made of the lines of the second kind, all of them,   *)
(* in the order of the text.  (In a call that returns, a line without a    *)
(* keyword is blank or lies before the section.)                           *)
(***************************************************************************)
EntryExtractors ==
    [extract_education  |-> education_keywords,
     extract_experience |-> experience_keywords,
     extract_projects   |-> project_keywords]

ExtractCalls == {i \in DOMAIN log : log[i].call.op \in DOMAIN EntryExtractors}
KeywordsOf(i) == EntryExtractors[log[i].call.op]

\* The line is a keyword and nothing else; the line has a keyword and more.
IsPureHeader(keywords, line) ==
    \E k \in DOMAIN keywords : Len(line) = Len(keywords[k]) /\ OccursAt(line, keywords[k], 1)
IsHeaderWithContent(keywords, line) ==
    (\E k \in DOMAIN keywords : Occurs(line, keywords[k])) /\ ~IsPureHeader(keywords, line)

C19_HeaderOrContent ==
    \A i \in ExtractCalls :
        Returned(i) =>
            LET Content(line) == IsHeaderWithContent(KeywordsOf(i), line)
            IN  str_join(EntriesOf(i))
                    = str_join(SelectSeq(StrippedLines(log[i].call.text), Content))

\* A text with a pure header and a header with content has been extracted from.
C19_Witness ==
    \E i \in ExtractCalls :
        /\ Returned(i)
        /\ LET lines == StrippedLines(log[i].call.text)
           IN  /\ IsPureHeader(KeywordsOf(i), lines[1])
               /\ Len(lines) > 1
               /\ IsHeaderWithContent(KeywordsOf(i), lines[2])
               /\ EntriesOf(i) = <<lines[2]>>

(***************************************************************************)
(* C20: inside the section a blank line after content ends the entry and   *)
(* does not end the section: the content before the blank line is the end  *)
(* of one entry, and a non-blank line right after the blank line, with or  *)
(* without a keyword, is the start of the next entry of the call.  A blank *)
(* line with nothing collected adds no entry: no entry is empty.           *)
(***************************************************************************)
\* Line n is content of the section, line n + 1 is blank and line n + 2 is
\* not; it is no header, and no line of another section.
EntryBreakAt(keywords, lines, n) ==
    /\ n + 2 \in DOMAIN lines
    /\ IsHeaderWithContent(keywords, lines[n])
    /\ lines[n + 1] = ""
    /\ lines[n + 2] # ""
    /\ ~IsPureHeader(keywords, lines[n + 2])
    /\ \A p \in DOMAIN SectionKeywords :
           SectionKeywords[p] # keywords => ~AnyKeywordIn(SectionKeywords[p], lines[n + 2])

\* Entry m ends with the line before the break and entry m + 1 starts with the
\* line after it.
SplitsAt(entries, lines, n, m) ==
    /\ m + 1 \in DOMAIN entries
    /\ Len(entries[m]) >= Len(lines[n])
    /\ OccursAt(entries[m], lines[n], Len(entries[m]) - Len(lines[n]) + 1)
    /\ OccursAt(entries[m + 1], lines[n + 2], 1)

C20_BlankLineKeepsSection ==
    \A i \in ExtractCalls :
        LET lines == StrippedLines(log[i].call.text)
        IN  /\ Returned(i) => \A m \in DOMAIN EntriesOf(i) : EntriesOf(i)[m] # ""
            /\ \A n \in DOMAIN lines :
                   EntryBreakAt(KeywordsOf(i), lines, n) =>
                       /\ Returned(i)
                       /\ \E m \in DOMAIN EntriesOf(i) : SplitsAt(EntriesOf(i), lines, n, m)

(***************************************************************************)
(* C21: inside the section of an extractor a non-blank line that has a     *)
(* keyword of another section and none of the extractor's own closes the   *)
(* section: the call returns, the entry collected so far is one of its     *)
(* entries, the line is in none of them, and a line after it without a     *)
(* keyword of the section is in none of them either.                       *)
(***************************************************************************)
\* Line n - 1 is content of the section, and line n is a line of another
\* section.
SectionClosedAt(keywords, lines, n) ==
    /\ n - 1 \in DOMAIN lines
    /\ n \in DOMAIN lines
    /\ IsHeaderWithContent(keywords, lines[n - 1])
    /\ lines[n] # ""
    /\ ~AnyKeywordIn(keywords, lines[n])
    /\ \E p \in DOMAIN SectionKeywords :
           SectionKeywords[p] # keywords /\ AnyKeywordIn(SectionKeywords[p], lines[n])

\* The entry ends with the line.
EndsWith(entry, line) ==
    Len(entry) >= Len(line) /\ OccursAt(entry, line, Len(entry) - Len(line) + 1)

C21_OtherSectionCloses ==
    \A i \in ExtractCalls :
        LET lines == StrippedLines(log[i].call.text)
        IN  \A n \in DOMAIN lines :
                SectionClosedAt(KeywordsOf(i), lines, n) =>
                    /\ Returned(i)
                    /\ \E m \in DOMAIN EntriesOf(i) : EndsWith(EntriesOf(i)[m], lines[n - 1])
                    /\ Holders({i}, lines[n]) = {}
                    /\ \A k \in DOMAIN lines :
                           (k > n /\ lines[k] # "" /\ ~AnyKeywordIn(KeywordsOf(i), lines[k]))
                               => Holders({i}, lines[k]) = {}

(***************************************************************************)
(* C22: the entries an extractor returns are the blocks of the text in the *)
(* order of the text: a block is a run of content lines of the section     *)
(* with no blank line inside, and its entry is those lines, in their       *)
(* order, joined by single spaces.  The block that the end of the text     *)
(* ends is the last entry.                                                 *)
(***************************************************************************)
\* The places of the content lines, and whether a blank line lies between
\* two places.
ContentPlaces(keywords, lines) ==
    {n \in DOMAIN lines : IsHeaderWithContent(keywords, lines[n])}
BlankBetween(lines, a, b) == \E k \in a..b : lines[k] = ""

\* The places where a block starts, and the places of the block that starts
\* at a.
BlockStarts(keywords, lines) ==
    {a \in ContentPlaces(keywords, lines) :
        \A b \in ContentPlaces(keywords, lines) : b < a => BlankBetween(lines, b, a)}
BlockOf(keywords, lines, a) ==
    {b \in ContentPlaces(keywords, lines) : b >= a /\ ~BlankBetween(lines, a, b)}

\* The place of p among the places S, counted from 1, and the lines at the
\* places S in the order of the text.
RankIn(S, p) == Cardinality({q \in S : q <= p})
LinesAt(lines, S) ==
    [k \in 1..Cardinality(S) |-> lines[CHOOSE p \in S : RankIn(S, p) = k]]

SkillExtractions == CallsOf("extract_skills")

\* The line is a skills header; the line ends the skills section.
HasSkillsHeader(line) == Occurs(line, "skills")
EndsSkillsSection(line) ==
    ~HasSkillsHeader(line) /\ \E w \in {"experience", "education", "work"} : Occurs(line, w)

\* The smallest of a set of places (places count from 1), or 0 when the set
\* is empty.
FirstOf(S) == IF S = {} THEN 0 ELSE CHOOSE p \in S : \A q \in S : p <= q

\* The place of the first header, and of the first line after it that ends
\* the section.
FirstHeader(lines) == FirstOf({n \in DOMAIN lines : HasSkillsHeader(lines[n])})
FirstEnd(lines) ==
    FirstOf({n \in DOMAIN lines :
                FirstHeader(lines) # 0 /\ n > FirstHeader(lines)
                    /\ EndsSkillsSection(lines[n])})

\* The places of the lines of the skills section: after the first header,
\* before the line that ends the section, the headers left out.
SkillsSection(lines) ==
    {n \in DOMAIN lines :
        /\ FirstHeader(lines) # 0
        /\ n > FirstHeader(lines)
        /\ FirstEnd(lines) # 0 => n < FirstEnd(lines)
        /\ ~HasSkillsHeader(lines[n])}

\* The tokens of a line: its stretches between commas, trimmed, those of
\* more than two characters.
TokensOf(line) ==
    {tok \in {str_strip(part) : part \in Range(str_split(line, ","))} : Len(tok) > 2}

\* What a call returned is, in some order and each once, the tokens of the
\* lines of the skills section, read in the given case.
SkillTokensAgree(InCase(_)) ==
    \A i \in SkillExtractions :
        LET lines == str_split_lines(log[i].call.text)
        IN  /\ Returned(i)
            /\ Range(EntriesOf(i))
                   = UNION {TokensOf(InCase(lines[n])) : n \in SkillsSection(lines)}
            /\ Len(EntriesOf(i)) = Cardinality(Range(EntriesOf(i)))
            /\ \A k \in DOMAIN EntriesOf(i) :
                   /\ Len(EntriesOf(i)[k]) > 2
                   /\ ~Occurs(EntriesOf(i)[k], ",")
                   /\ str_strip(EntriesOf(i)[k]) = EntriesOf(i)[k]

AsWritten(s) == s

(***************************************************************************)
(* C23: extract_skills returns the tokens of the lines of the skills       *)
(* section, split at the commas and trimmed, those of more than two        *)
(* characters: each of them once, none with a comma or with white space    *)
(* around it.                                                              *)
(***************************************************************************)
C23_SkillTokens == SkillTokensAgree(AsWritten)

(***************************************************************************)
(* C24: the skills that stand on a skills header line, after the header    *)
(* and its colon, are among the skills extract_skills returns (in either   *)
(* case).                                                                  *)
(***************************************************************************)
\* What follows the first colon of the line; nothing when it has no colon.
AfterColon(line) ==
    LET colon == FirstOf({p \in 1..Len(line) : SubSeq(line, p, p) = ":"})
    IN  IF colon = 0 THEN "" ELSE SubSeq(line, colon + 1, Len(line))

\* The two strings are the same but for the case of their letters.
SameButCase(s, t) == Len(s) = Len(t) /\ OccursAt(s, t, 1)

\* The places of the header lines of the skills section: the first header and
\* those after it, before the line that ends the section.
SkillsHeaders(lines) ==
    {n \in DOMAIN lines :
        /\ HasSkillsHeader(lines[n])
        /\ FirstEnd(lines) # 0 => n < FirstEnd(lines)}

C24_HeaderDataKept ==
    \A i \in SkillExtractions :
        LET lines == str_split_lines(log[i].call.text)
        IN  \A n \in SkillsHeaders(lines) :
                /\ Returned(i)
                /\ \A tok \in TokensOf(AfterColon(lines[n])) :
                       \E k \in DOMAIN EntriesOf(i) : SameButCase(EntriesOf(i)[k], tok)

(***************************************************************************)
(* What the properties of extract_summary speak of.                        *)
(***************************************************************************)
Summaries == CallsOf("extract_summary")

\* The line has one of the words experience, education, skills, in either
\* case.
HasSectionWord(line) == \E w \in {"experience", "education", "skills"} : Occurs(line, w)

\* The places, among the first five lines, of the lines without such a word,
\* and those of them that are not blank.
SummaryPlaces(lines) == {n \in DOMAIN lines : n <= 5 /\ ~HasSectionWord(lines[n])}
NonBlankSummaryPlaces(lines) == {n \in SummaryPlaces(lines) : lines[n] # ""}

(***************************************************************************)
(* C25, as stated: extract_summary returns the trimmed lines, among the    *)
(* first five lines of the text, that have none of the words experience,   *)
(* education, skills, joined by single spaces in the order of the text; no *)
(* line after the fifth is used.                                           *)
(***************************************************************************)
C25_FirstFiveLines ==
    \A i \in Summaries :
        LET lines == StrippedLines(log[i].call.text)
        IN  Returned(i) /\ ResultOf(i) = str_join(LinesAt(lines, SummaryPlaces(lines)))

(***************************************************************************)
(* C25, amended: extract_summary returns the trimmed non-blank lines,      *)
(* among the first five lines of the text, that have none of the words     *)
(* experience, education, skills, joined by single spaces in the order of  *)
(* the text; no line after the fifth is used.                              *)
(***************************************************************************)
C25_FirstFiveNonBlankLines ==
    \A i \in Summaries :
        LET lines == StrippedLines(log[i].call.text)
        IN  Returned(i) /\ ResultOf(i) = str_join(LinesAt(lines, NonBlankSummaryPlaces(lines)))

\* A summary has been made of a text of more than five lines: its first five
\* lines hold a blank line, a line with one of the words and two lines of the
\* summary at least, and a line after the fifth has none of the words.
C25_Witness ==
    \E i \in Summaries :
        LET lines == StrippedLines(log[i].call.text)
        IN  /\ Returned(i)
            /\ Len(lines) > 5
            /\ \E n \in 1..5 : lines[n] = ""
            /\ \E n \in 1..5 : HasSectionWord(lines[n])
            /\ Cardinality(NonBlankSummaryPlaces(lines)) \in 2..4
            /\ \E n \in 6..Len(lines) : lines[n] # "" /\ ~HasSectionWord(lines[n])
            /\ ResultOf(i) = str_join(LinesAt(lines, NonBlankSummaryPlaces(lines)))

(***************************************************************************)
(* C26: the scorers of analyze_resume agree on a text without signal.  A   *)
(* text with section score 0 gets the three suggestions to add a section   *)
(* (experience, education, skills) and an ATS score with the 15 points for *)
(* the missing keywords taken off, 85 at most; a text whose ATS score has  *)
(* not lost these 15 points has a section score of 20 at least.            *)
(***************************************************************************)
\* The ATS scores with and without the 15 points taken off: 100 less 15,
\* less 20 or not, less 10 or not.
AtsWithKeywordDeduction == {85, 75, 65, 55}
AtsWithoutKeywordDeduction == {100, 90, 80, 70}

AddSectionSuggestions == {NoExperience, NoEducation, NoSkills}

C26_EmptySignalAgrees ==
    \A i \in Analyses :
        Len(TextOf(i)) > 0 =>
            /\ Returned(i)
            /\ IsReport(ResultOf(i))
            /\ ResultOf(i).ats_score \in AtsWithKeywordDeduction \cup AtsWithoutKeywordDeduction
            /\ ResultOf(i).section_score = 0 =>
                   /\ AddSectionSuggestions \subseteq Range(ResultOf(i).suggestions)
                   /\ ResultOf(i).ats_score \in AtsWithKeywordDeduction
                   /\ ResultOf(i).ats_score <= 85
            /\ ResultOf(i).ats_score \in AtsWithoutKeywordDeduction =>
                   ResultOf(i).section_score >= 20

\* A text of 200 characters or more without any keyword has been analysed:
\* section score 0, the three suggestions and nothing else, ATS score 85.
C26_Witness ==
    \E i \in Analyses :
        /\ Len(TextOf(i)) >= 200
        /\ IsReport(ResultOf(i))
        /\ ResultOf(i).section_score = 0
        /\ ResultOf(i).suggestions = <<NoExperience, NoEducation, NoSkills>>
        /\ ResultOf(i).ats_score = 85

(***************************************************************************)
(* C27: the keyword match, of analyze_resume and of                        *)
(* calculate_keyword_match, splits the list of required skills in two:     *)
(* found_skills holds the skills at some places of the list and            *)
(* missing_skills the skills at the other places, both in the order of the *)
(* list, so that every skill is in them as often as it is required and     *)
(* len(found) + len(missing) = len(required); no skill is in both.         *)
(***************************************************************************)
\* The calls with a list of required skills whose text is matched, the list
\* of such a call and the keyword match it returned.
KeywordMatches ==
    {i \in DOMAIN log :
        \/ log[i].call.op = "calculate_keyword_match"
        \/ /\ log[i].call.op = "analyze_resume"
           /\ Len(TextOf(i)) > 0
           /\ HasSkillList(RequirementsOf(i))}
RequiredIn(i) ==
    IF log[i].call.op = "analyze_resume" THEN RequiredOf(i) ELSE log[i].call.required_skills
MatchOf(i) ==
    IF log[i].call.op = "analyze_resume" THEN ResultOf(i).keyword_match ELSE ResultOf(i)

C27_FoundAndMissingSplitRequired ==
    \A i \in KeywordMatches :
        /\ Returned(i)
        /\ log[i].call.op = "analyze_resume" => IsReport(ResultOf(i))
        /\ {"found_skills", "missing_skills"} \subseteq DOMAIN MatchOf(i)
        /\ LET required == RequiredIn(i)
               found    == MatchOf(i).found_skills
               missing  == MatchOf(i).missing_skills
               places   == {k \in DOMAIN required : required[k] \in Range(found)}
           IN  /\ found = LinesAt(required, places)
               /\ missing = LinesAt(required, DOMAIN required \ places)
               /\ Range(found) \cap Range(missing) = {}
               /\ Len(found) + Len(missing) = Len(required)

\* A list that requires one skill twice, with a skill the text does not have
\* in between, has been matched: the skill is found twice.
C27_Witness ==
    \E i \in KeywordMatches :
        /\ log[i].call.op = "calculate_keyword_match"
        /\ Returned(i)
        /\ RequiredIn(i) = <<"Python", "SQL", "Python">>
        /\ MatchOf(i).found_skills = <<"Python", "Python">>
        /\ MatchOf(i).missing_skills = <<"SQL">>

(***************************************************************************)
(* C28: no entry that extract_education, extract_experience or             *)
(* extract_projects returns is empty: every entry holds a non-blank line   *)
(* of the text.  Blank lines one after another and a pure header followed  *)
(* by a blank line add no entry, and a text without a line that has a      *)
(* keyword of the section gives the empty list.                            *)
(***************************************************************************)
\* No line of the text has a keyword of the section.
NoKeywordLine(keywords, lines) == \A n \in DOMAIN lines : ~AnyKeywordIn(keywords, lines[n])

HasEndWord(line) == \E w \in {"experience", "education", "work"} : Occurs(line, w)

\* The place of the first line after the first header that has such a word.
FirstEndWord(lines) ==
    FirstOf({n \in DOMAIN lines :
                FirstHeader(lines) # 0 /\ n > FirstHeader(lines) /\ HasEndWord(lines[n])})

\* Every skill returned is a token (in either case) of a line after the first
\* header and before the line at place end, when there is such a place.
TokensFromSectionOnly(lines, skills, end) ==
    \A k \in DOMAIN skills :
        \E n \in DOMAIN lines :
            /\ FirstHeader(lines) # 0
            /\ n > FirstHeader(lines)
            /\ end # 0 => n < end
            /\ \E tok \in TokensOf(lines[n]) : SameButCase(skills[k], tok)

(***************************************************************************)
(* C29, as stated: extract_skills returns no token of a line before the    *)
(* first skills header, and none of the first line after that header that  *)
(* has experience, education or work, or of a line after it, a second      *)
(* skills header notwithstanding.                                          *)
(***************************************************************************)
C29_StopsAtFirstEndWord ==
    \A i \in SkillExtractions :
        LET lines == str_split_lines(log[i].call.text)
        IN  Returned(i) /\ TokensFromSectionOnly(lines, EntriesOf(i), FirstEndWord(lines))

(***************************************************************************)
(* C29, amended: extract_skills returns no token of a line before the      *)
(* first skills header, and none of the first line after that header that  *)
(* has experience, education or work and does not have skills, or of a     *)
(* line after it, a second skills header notwithstanding.                  *)
(***************************************************************************)
C29_StopsAtFirstEndLine ==
    \A i \in SkillExtractions :
        LET lines == str_split_lines(log[i].call.text)
        IN  Returned(i) /\ TokensFromSectionOnly(lines, EntriesOf(i), FirstEnd(lines))

\* Skills have been extracted from a text with skills before the header, in
\* the section, and after a second header that follows the end of the
\* section: the skills returned are those of the section.
C29_Witness ==
    \E i \in SkillExtractions :
        LET lines == str_split_lines(log[i].call.text)
            first == FirstHeader(lines)
            end   == FirstEnd(lines)
        IN  /\ Returned(i)
            /\ first > 1 /\ TokensOf(lines[1]) # {}
            /\ end # 0
            /\ \E h \in DOMAIN lines :
                   /\ h > end /\ HasSkillsHeader(lines[h])
                   /\ h + 1 \in DOMAIN lines /\ TokensOf(lines[h + 1]) # {}
            /\ EntriesOf(i) # << >>
            /\ TokensFromSectionOnly(lines, EntriesOf(i), end)

(***************************************************************************)
(* C30: save_resume_data and save_ai_analysis_data release their session   *)
(* on every path.  A call whose try block raised nothing returns the key   *)
(* of a row that is stored, the row of the call.  A call whose try block   *)
(* raised an exception has rolled the transaction back and raises that     *)
(* same exception, and no row of it is stored: the database holds one row  *)
(* for each call that returned.  In both cases the session of the call is  *)
(* closed, with nothing pending in it.                                     *)
(***************************************************************************)
Saves == {i \in DOMAIN log : log[i].call.op \in {"save_resume_data", "save_ai_analysis_data"}}

\* The table a call saves to.
TableOf(i) == IF log[i].call.op = "save_resume_data" THEN "resumes" ELSE "ai_analyses"

\* Call i has ended as the claim says.
SaveAsClaimed(i) ==
    /\ log[i].session # NoSession
    /\ db.sessions[log[i].session] = [state |-> "closed", pending |-> {}, flushed |-> {}]
    /\ log[i].failed = NoException =>
           /\ Returned(i)
           /\ \E row \in db.rows : row.table = TableOf(i) /\ row.id = ResultOf(i)
    /\ log[i].failed # NoException =>
           /\ log[i].outcome.raised
           /\ log[i].outcome.exc = log[i].failed
           /\ log[i].rolled_back

C30_SessionReleased ==
    /\ \A i \in Saves : SaveAsClaimed(i)
    /\ frames[Caller].pc = "idle" =>
           Cardinality(db.rows) = Cardinality({i \in Saves : Returned(i)})

====
